---- MODULE Spec2Model ----
(***************************************************************************)
(* Model of the core of the trading suggester:                             *)
(*   - the LLM-output validator (src/src/validation/validator.py with the  *)
(*     schema of src/src/models/llm_output.py),                            *)
(*   - the feature engine (src/src/features/engine.py),                    *)
(*   - the anchoring context builder (src/src/anchoring.py),               *)
(*   - the analyze command and the collector loop that call them           *)
(*     (src/src/main.py),                                                  *)
(* under the limits of src/src/config.py.  Each part has its own           *)
(* specification: Spec (validator), SpecEngine, SpecAnchoring, SpecRuns    *)
(* (analyze runs over the stores) and SpecCollector (the collector loop).  *)
(*                                                                         *)
(* Numbers.  The Python code computes in binary floating point; the model  *)
(* computes the same expressions exactly, on integers and on fractions     *)
(* kept as numerator / denominator:                                        *)
(*   - risk percentages are in hundredths of a percent  (1.0 % = 100),     *)
(*   - dollar amounts are in cents                      ($100 = 10000),    *)
(*   - reward:risk ratios are in hundredths             (1.5  = 150),      *)
(*   - prices are whole dollars,                                           *)
(*   - weighted confidence sums are in quarters         (50.5 = 202).      *)
(* round(x, 2) and round(x) are round-half-to-even on the exact value.     *)
(* Numeric inputs are finite decimals.                                     *)
(***************************************************************************)
EXTENDS Integers, Sequences, FiniteSets, TLC

VARIABLES raw, pc, result, result2,
          snapshots, market,
          prev_analysis, signals, now, anchor, anchor2,
          analysis_log, outcome, _current_day, _running

validatorVars == <<raw, result, result2>>

engineVars == <<snapshots, market>>

anchoringVars == <<prev_analysis, signals, now, anchor, anchor2>>

programVars == <<analysis_log, outcome, _current_day, _running>>

vars == <<raw, pc, result, result2, snapshots, market,
          prev_analysis, signals, now, anchor, anchor2,
          analysis_log, outcome, _current_day, _running>>

(***************************************************************************)
(* Configuration (src/src/config.py), in the units above.                  *)
(***************************************************************************)
EQUITY_USD == 10000
MAX_RISK_PER_TRADE_PCT == 100
MAX_TOTAL_RISK_PCT == 200
MIN_LEVERAGE == 1
MAX_LEVERAGE == 6

(***************************************************************************)
(* Arithmetic helpers.                                                     *)
(***************************************************************************)
Abs(x) == IF x < 0 THEN -x ELSE x

Min(a, b) == IF a <= b THEN a ELSE b

\* Python int(n / d) for d > 0: truncation toward zero.
TruncDiv(n, d) == IF n >= 0 THEN n \div d ELSE -((-n) \div d)

\* The smallest integer >= n / d, for d > 0.
CeilDiv(n, d) == -((-n) \div d)

\* Python round(): n / d (d > 0) to the nearest integer, ties to even.
\* n \div d is the floor and n % d the remainder in 0 .. d - 1.
RoundHalfEven(n, d) ==
    IF 2 * (n % d) < d THEN n \div d
    ELSE IF 2 * (n % d) > d THEN (n \div d) + 1
    ELSE IF (n \div d) % 2 = 0 THEN n \div d ELSE (n \div d) + 1

RECURSIVE Gcd(_, _)
Gcd(a, b) == IF b = 0 THEN a ELSE Gcd(b, a % b)

\* The fraction n / d (d > 0) in lowest terms, as <<numerator, denominator>>.
Frac(n, d) == <<n \div Gcd(Abs(n), d), d \div Gcd(Abs(n), d)>>

RECURSIVE SumSeq(_)
SumSeq(s) == IF s = <<>> THEN 0 ELSE Head(s) + SumSeq(Tail(s))

(***************************************************************************)
(* Schema: src/src/models/llm_output.py.                                   *)
(***************************************************************************)
\* ConfidenceCriterion.score_range
score_range(v) == 0 <= v /\ v <= 10

\* Setup.confidence_range
confidence_range(v) == 0 <= v /\ v <= 100

\* Setup.exactly_10_criteria
exactly_10_criteria(v) == Len(v) = 10

\* valid_playbook with one letter too many.
valid_playbook_AtoF(v) == v \in {"A", "B", "C", "D", "E", "F"}

\* Setup.valid_playbook
valid_playbook(v) == v \in {"A", "B", "C", "D", "E"}

\* Setup.valid_direction
valid_direction(v) == v \in {"long", "short", "no_trade"}

\* The weights of confidence_matches_breakdown, in quarters:
\* 2.0, 1.5, 1.5, 1.5, 1.0, 0.5, 0.5, 0.25, 0.25, 1.0.
weights == <<8, 6, 6, 6, 4, 2, 2, 1, 1, 4>>

\* sum(s * w for s, w in zip(raw_scores, weights)), in quarters.  zip stops
\* at the shorter list; the validator only runs on 10 scores.
WeightedSum4(scores) ==
    SumSeq([i \in 1..Min(Len(scores), Len(weights)) |-> scores[i] * weights[i]])

\* ExpectedConfidence with int() in place of round().
ExpectedConfidence_Truncated(scores) == WeightedSum4(scores) \div 4

\* expected = round(sum(...))
ExpectedConfidence(scores) == RoundHalfEven(WeightedSum4(scores), 4)

\* Setup.confidence_matches_breakdown: TRUE when the validator does not raise.
confidence_matches_breakdown(s) ==
    ~(Abs(s.confidence - ExpectedConfidence(s.confidence_breakdown)) > 2)

\* The field validators of one Setup (pydantic runs the model validator
\* only when every field validated).
SetupFieldErrors(s) ==
    (IF confidence_range(s.confidence) THEN {} ELSE {"confidence"})
    \cup (IF \A i \in 1..Len(s.confidence_breakdown) :
                score_range(s.confidence_breakdown[i])
          THEN {} ELSE {"confidence_breakdown.score"})
    \cup (IF (\A i \in 1..Len(s.confidence_breakdown) :
                score_range(s.confidence_breakdown[i]))
             /\ ~exactly_10_criteria(s.confidence_breakdown)
          THEN {"confidence_breakdown"} ELSE {})
    \cup (IF valid_playbook(s.playbook) THEN {} ELSE {"playbook"})
    \cup (IF valid_direction(s.direction) THEN {} ELSE {"direction"})

SetupErrors(s) ==
    IF SetupFieldErrors(s) # {} THEN SetupFieldErrors(s)
    ELSE IF confidence_matches_breakdown(s) THEN {} ELSE {"confidence_matches_breakdown"}

\* LLMOutput.valid_regime
valid_regime(v) == v \in {"trend", "range", "high_vol", "low_vol", "chop"}

\* LLMOutput.exactly_3_setups
exactly_3_setups(v) == Len(v) = 3

\* The error locations of LLMOutput(**data): e.errors() as a set of
\* <<field, index, detail>> paths.  The list validator of "setups" runs only
\* when every item validated.
SchemaErrors(data) ==
    (IF data.fields_missing THEN {<<"missing", 0, "">>} ELSE {})
    \cup (IF valid_regime(data.regime) THEN {} ELSE {<<"regime", 0, "">>})
    \cup UNION { { <<"setups", i, e>> : e \in SetupErrors(data.setups[i]) } :
                  i \in 1..Len(data.setups) }
    \cup (IF (\A i \in 1..Len(data.setups) : SetupErrors(data.setups[i]) = {})
             /\ ~exactly_3_setups(data.setups)
          THEN {<<"setups", 0, "">>} ELSE {})

(***************************************************************************)
(* validate_llm_output: src/src/validation/validator.py.                   *)
(***************************************************************************)
\* One issue string.  corrected says whether it carries the
\* "CORRECTED" prefix of line 149; kind names the message, rank is the
\* setup.rank the message prints, detail the schema error locations.
Note(corrected, kind, rank) ==
    [corrected |-> corrected, kind |-> kind, rank |-> rank, detail |-> {}]

\* round(n / d, digits) for a divisor of either sign (d # 0).
RoundFrac(n, d) == IF d < 0 THEN RoundHalfEven(-n, -d) ELSE RoundHalfEven(n, d)

\* margin_budget = EQUITY_USD * 0.5, in cents.
margin_budget == EQUITY_USD * 50

\* CapRisk without the cap.
CapRisk_Uncapped(pct) == pct

\* Lines 50-56: cap risk_pct_equity.
CapRisk(pct) == IF pct > MAX_RISK_PER_TRADE_PCT THEN MAX_RISK_PER_TRADE_PCT ELSE pct

\* Line 62: the guard of the deterministic sizing override.
Sizable(s) == s.entry_trigger > 0 /\ s.stop_level > 0 /\ s.entry_trigger # s.stop_level

\* The leverage as the whole part of raw_leverage, at least 1.
Leverage_WholePart(n, d) ==
    Min(IF TruncDiv(n, d) < 1 THEN 1 ELSE TruncDiv(n, d), MAX_LEVERAGE)

\* Line 70: leverage = min(int(raw_leverage) + 1, MAX_LEVERAGE), for
\* raw_leverage = n / d with d > 0.
Leverage(n, d) == Min(TruncDiv(n, d) + 1, MAX_LEVERAGE)

\* LeverageExceeds one leverage step late.
LeverageExceeds_OffByOne(n, d) == n > (MAX_LEVERAGE + 1) * d

\* Line 73: if raw_leverage > MAX_LEVERAGE, for raw_leverage = n / d, d > 0.
LeverageExceeds(n, d) == n > MAX_LEVERAGE * d

\* Lines 63-111: the sizing of one setup s whose risk percentage is pct
\* (after the cap).  Fractions are <<numerator, denominator>> pairs in
\* lowest terms; amounts in cents.

\* abs(entry_px - stop_px), the numerator of stop_dist_pct (line 64).
Dist(s) == Abs(s.entry_trigger - s.stop_level)

\* Line 63: max_loss_usd = EQUITY_USD * pct / 100.
TargetLoss(pct) == Frac(EQUITY_USD * pct, 100)

\* Line 65: notional = max_loss_usd / stop_dist_pct.
TargetNotional(s, pct) ==
    Frac(TargetLoss(pct)[1] * s.entry_trigger, TargetLoss(pct)[2] * Dist(s))

\* Line 69: raw_leverage = notional / margin_budget.
RawLeverage(s, pct) ==
    Frac(TargetNotional(s, pct)[1], TargetNotional(s, pct)[2] * margin_budget)

\* Line 70.
SizedLeverage(s, pct) == Leverage(RawLeverage(s, pct)[1], RawLeverage(s, pct)[2])

\* Line 73.
LeverageCapped(s, pct) == LeverageExceeds(RawLeverage(s, pct)[1], RawLeverage(s, pct)[2])

\* Line 74: notional = margin_budget * MAX_LEVERAGE when capped.
Notional(s, pct) ==
    IF LeverageCapped(s, pct) THEN <<margin_budget * MAX_LEVERAGE, 1>>
    ELSE TargetNotional(s, pct)

\* Line 75: max_loss_usd = notional * stop_dist_pct when capped.
MaxLoss(s, pct) ==
    IF LeverageCapped(s, pct)
    THEN Frac(margin_budget * MAX_LEVERAGE * Dist(s), s.entry_trigger)
    ELSE TargetLoss(pct)

\* Lines 84-90: rr_to_tp1.
RewardRisk(s) ==
    IF Len(s.take_profits) > 0
    THEN RoundHalfEven(Abs(s.take_profits[1].level - s.entry_trigger) * 100, Dist(s))
    ELSE 0

\* Line 94: abs(notional - old_notional) / old_notional > 0.1.
NotionalDeviates(s, pct) ==
    /\ s.risk.position_notional_usd > 0
    /\ Abs(Notional(s, pct)[1] - s.risk.position_notional_usd * Notional(s, pct)[2]) * 10
           > s.risk.position_notional_usd * Notional(s, pct)[2]

\* Line 101: abs(rr_to_tp1 - old_rr) / old_rr > 0.1.
RewardRiskDeviates(s) ==
    /\ s.risk.rr_to_tp1 > 0
    /\ Abs(RewardRisk(s) - s.risk.rr_to_tp1) * 10 > s.risk.rr_to_tp1

\* Lines 113-118: the regenerated liquidation buffer note, as the three
\* numbers it prints: liq distance (tenths of a percent), stop distance
\* (hundredths of a percent) and buffer (tenths of a percent).
LiquidationNote(s, leverage) ==
    [ liq    |-> RoundFrac(1000, leverage),
      stop   |-> RoundHalfEven(Dist(s) * 10000, s.entry_trigger),
      buffer |-> RoundFrac((s.entry_trigger - Dist(s) * leverage) * 1000,
                           leverage * s.entry_trigger) ]

\* Lines 106-118: the risk block overwritten with the sizing.  The
\* assignments are to attributes of setup.risk: every other attribute keeps
\* its value.
SizedRisk(s, pct) ==
    [ s.risk EXCEPT
      !.risk_pct_equity         = pct,
      !.max_loss_usd            = RoundHalfEven(MaxLoss(s, pct)[1], MaxLoss(s, pct)[2]),
      !.recommended_leverage    = SizedLeverage(s, pct),
      !.position_notional_usd   = RoundHalfEven(Notional(s, pct)[1], Notional(s, pct)[2]),
      !.margin_used_usd         = RoundFrac(Notional(s, pct)[1],
                                            Notional(s, pct)[2] * SizedLeverage(s, pct)),
      !.rr_to_tp1               = RewardRisk(s),
      !.liquidation_buffer_note = LiquidationNote(s, SizedLeverage(s, pct)) ]

\* The ZeroDivisionError of line 81 (margin_used = notional / leverage).
SizingRaises(s, pct) == Sizable(s) /\ SizedLeverage(s, pct) = 0

\* The risk block after lines 50-118.
CorrectedRisk(s, pct) ==
    IF Sizable(s) /\ ~SizingRaises(s, pct) THEN SizedRisk(s, pct)
    ELSE [s.risk EXCEPT !.risk_pct_equity = pct]

\* The correction notes of lines 52-55, 76-79, 95-98 and 102-104.
SetupCorrections(s, pct) ==
    (IF s.risk.risk_pct_equity > MAX_RISK_PER_TRADE_PCT
     THEN <<Note(TRUE, "capped risk_pct", s.rank)>> ELSE <<>>)
    \o (IF Sizable(s) /\ LeverageCapped(s, pct)
        THEN <<Note(TRUE, "leverage capped", s.rank)>> ELSE <<>>)
    \o (IF Sizable(s) /\ NotionalDeviates(s, pct)
        THEN <<Note(TRUE, "corrected notional", s.rank)>> ELSE <<>>)
    \o (IF Sizable(s) /\ RewardRiskDeviates(s)
        THEN <<Note(TRUE, "corrected R:R", s.rank)>> ELSE <<>>)

\* Lines 120-126: the R:R gate on the corrected rr_to_tp1.
RewardRiskGate(s, rr) ==
    IF rr < 150 THEN <<Note(FALSE, "R:R to TP1 below minimum", s.rank)>> ELSE <<>>

\* CorrectSetup without the no_trade skip of lines 47-48.
CorrectSetup_SizesNoTrade(s) ==
    [ raised      |-> SizingRaises(s, CapRisk(s.risk.risk_pct_equity)),
      setup       |-> [s EXCEPT !.risk = CorrectedRisk(s, CapRisk(s.risk.risk_pct_equity))],
      corrections |-> SetupCorrections(s, CapRisk(s.risk.risk_pct_equity)),
      errors      |-> RewardRiskGate(s,
                         CorrectedRisk(s, CapRisk(s.risk.risk_pct_equity)).rr_to_tp1),
      risk        |-> CapRisk(s.risk.risk_pct_equity) ]

\* Lines 46-128: one iteration of the loop over output.setups.
CorrectSetup(s) ==
    IF s.direction = "no_trade"
    THEN [raised |-> FALSE, setup |-> s, corrections |-> <<>>, errors |-> <<>>, risk |-> 0]
    ELSE [ raised      |-> SizingRaises(s, CapRisk(s.risk.risk_pct_equity)),
           setup       |-> [s EXCEPT !.risk = CorrectedRisk(s, CapRisk(s.risk.risk_pct_equity))],
           corrections |-> SetupCorrections(s, CapRisk(s.risk.risk_pct_equity)),
           errors      |-> RewardRiskGate(s,
                              CorrectedRisk(s, CapRisk(s.risk.risk_pct_equity)).rr_to_tp1),
           risk        |-> CapRisk(s.risk.risk_pct_equity) ]

\* acc after one more setup, c = CorrectSetup(setup).
LoopStep(acc, c) ==
    [ raised      |-> c.raised,
      setups      |-> Append(acc.setups, c.setup),
      corrections |-> acc.corrections \o c.corrections,
      errors      |-> acc.errors \o c.errors,
      total_risk  |-> acc.total_risk + c.risk ]

\* Lines 44-128: the loop, setup by setup, stopping at the first exception.
\* acc = [raised, setups, corrections, errors, total_risk].
RECURSIVE CorrectLoop(_, _)
CorrectLoop(todo, acc) ==
    IF todo = <<>> \/ acc.raised THEN acc
    ELSE CorrectLoop(Tail(todo), LoopStep(acc, CorrectSetup(Head(todo))))

\* Line 137: round(old_pct * scale, 2) with scale = max_total / total_risk.
ScaleRisk(old_pct, total_risk) == RoundHalfEven(old_pct * MAX_TOTAL_RISK_PCT, total_risk)

\* The setups the total risk check scales.
TradedSetups(setups) == SelectSeq(setups, LAMBDA s : s.direction # "no_trade")

\* Lines 130-141: the total risk check.
TotalRiskCheck(setups, total_risk) ==
    IF total_risk > MAX_TOTAL_RISK_PCT
    THEN [ setups |-> [i \in 1..Len(setups) |->
                         IF setups[i].direction # "no_trade"
                         THEN [setups[i] EXCEPT !.risk.risk_pct_equity =
                                  ScaleRisk(setups[i].risk.risk_pct_equity, total_risk)]
                         ELSE setups[i]],
           corrections |-> [i \in 1..Len(TradedSetups(setups)) |->
                         Note(TRUE, "scaled risk", TradedSetups(setups)[i].rank)] ]
    ELSE [ setups |-> setups, corrections |-> <<>> ]

NoData == [fields_missing |-> FALSE, regime |-> "", setups |-> <<>>]

\* What json.loads makes of the raw text: a JSONDecodeError ("garbage"), a
\* dict ("object") or another JSON value.
JsonKinds == {"garbage", "object", "array", "number", "string", "null"}

\* Lines 41-128 on the parsed output.
Looped(data) ==
    CorrectLoop(data.setups,
        [ raised |-> FALSE, setups |-> <<>>, corrections |-> <<>>,
          errors |-> <<>>, total_risk |-> 0 ])

\* Lines 130-154: the total risk check and the returned pair, for the
\* state loop the loop over the setups ended in.
Finish(data, loop) ==
    IF loop.raised
    THEN [ tag |-> "raise", output |-> NoData, exception |-> "ZeroDivisionError",
           issues |-> <<>> ]
    ELSE [ tag |-> "ok",
           output |-> [data EXCEPT !.setups =
                          TotalRiskCheck(loop.setups, loop.total_risk).setups],
           exception |-> "",
           issues |-> loop.corrections
                      \o TotalRiskCheck(loop.setups, loop.total_risk).corrections
                      \o loop.errors ]

\* Lines 20-154.  tag is "none" for (None, issues), "ok" for (output, issues)
\* and "raise" when an exception leaves the function.
validate_llm_output(raw_json) ==
    IF raw_json.kind = "garbage"
    THEN [ tag |-> "none", output |-> NoData, exception |-> "",
           issues |-> <<Note(FALSE, "Invalid JSON", 0)>> ]
    ELSE IF raw_json.kind # "object"
    \* LLMOutput(**data) with data not a mapping
    THEN [ tag |-> "raise", output |-> NoData, exception |-> "TypeError", issues |-> <<>> ]
    ELSE IF SchemaErrors(raw_json.data) # {}
    THEN [ tag |-> "none", output |-> NoData, exception |-> "",
           issues |-> <<[Note(FALSE, "Schema validation failed", 0)
                            EXCEPT !.detail = SchemaErrors(raw_json.data)]>> ]
    ELSE Finish(raw_json.data, Looped(raw_json.data))

(***************************************************************************)
(* The raw texts the validator is run on.                                  *)
(***************************************************************************)
MaxGap == 3
MaxSetups == 4
ConfSpread == 4
MaxStatedLeverage == 20

\* Stated risk percentages: -0.5 %, 0 %, 0.5 %, 1.0 %, 2.5 %.
RiskPcts == {-50, 0, 50, 100, 250}

\* Entry triggers, whole dollars.
Triggers == {0, 100, 700}

\* The stop lies gap dollars under the trigger (above it for gap < 0, on it
\* for gap = 0).
Gaps == (-1)..MaxGap

\* All ten scores 5 (weighted sum 50), with criteria 5, 6 and 8 (weights
\* 1.0, 0.5, 0.25) raised by a, b, c.
Scores(a, b, c) ==
    [i \in 1..10 |-> IF i = 5 THEN 5 + a ELSE IF i = 6 THEN 5 + b
                     ELSE IF i = 8 THEN 5 + c ELSE 5]

\* Take-profit ladders over a trigger.
Ladder(kind, trigger) ==
    CASE kind = "none"    -> <<>>
      [] kind = "full"    -> <<[level |-> trigger + 2, pct |-> 50], [level |-> trigger + 4, pct |-> 50]>>
      [] kind = "partial" -> <<[level |-> trigger + 2, pct |-> 50]>>
      [] kind = "over"    -> <<[level |-> trigger + 2, pct |-> 60], [level |-> trigger + 4, pct |-> 60]>>

MkSetup(rank, direction, trigger, gap, pct, lev, notional) ==
    [ rank |-> rank, asset |-> "BTC", direction |-> direction, playbook |-> "A",
      confidence |-> 50, confidence_breakdown |-> Scores(0, 0, 0),
      entry_trigger |-> trigger, stop_level |-> trigger - gap,
      take_profits |-> Ladder("full", trigger),
      invalidations |-> <<"close beyond the stop", "funding flips">>,
      red_flags |-> <<"thin book">>,
      risk |-> [ risk_pct_equity |-> pct, max_loss_usd |-> 10000,
                 recommended_leverage |-> lev, position_notional_usd |-> notional,
                 margin_used_usd |-> 500000, rr_to_tp1 |-> 200,
                 cancel_if_not_triggered_minutes |-> 60 * rank,
                 time_stop_minutes |-> 240,
                 liquidation_buffer_note |-> [liq |-> 0, stop |-> 0, buffer |-> 0] ] ]

Default(rank) == MkSetup(rank, "long", 100, 1, 50, 1, 1000000)

Obj(regime, setups) ==
    [kind |-> "object", data |-> [fields_missing |-> FALSE, regime |-> regime, setups |-> setups]]

\* Setup 1 over directions, prices, risk and stated sizing.
PriceInputs ==
    { Obj("trend", <<MkSetup(1, d, t, g, p, l, n), Default(2), Default(3)>>) :
        d \in {"long", "short", "no_trade"}, t \in Triggers, g \in Gaps,
        p \in RiskPcts, l \in {1, MaxStatedLeverage}, n \in {0, 1000000} }

\* All three setups over direction and risk.
RiskInputs ==
    { Obj("range", <<MkSetup(1, d[1], 100, 1, p[1], 1, 0), MkSetup(2, d[2], 100, 1, p[2], 1, 0),
                     MkSetup(3, d[3], 100, 1, p[3], 1, 0)>>) :
        d \in [1..3 -> {"long", "no_trade"}], p \in [1..3 -> RiskPcts] }

\* Setups that share a rank.
RankInputs ==
    { Obj("chop", <<MkSetup(r[1], "long", 100, 1, p[1], 1, 0),
                    MkSetup(r[2], "short", 100, 1, p[2], 1, 0), Default(3)>>) :
        r \in [1..2 -> 1..2], p \in [1..2 -> {50, 250}] }

\* Default(k) with one field changed: off the schema, except the third.
OffSchemaSetups(k) ==
    { [Default(k) EXCEPT !.direction = "hold"],
      [Default(k) EXCEPT !.playbook = "F"],
      [Default(k) EXCEPT !.playbook = "E", !.direction = "no_trade"],
      [Default(k) EXCEPT !.confidence = -1],
      [Default(k) EXCEPT !.confidence = 101],
      [Default(k) EXCEPT !.confidence_breakdown = SubSeq(Scores(0, 0, 0), 1, 9)],
      [Default(k) EXCEPT !.confidence_breakdown = Append(Scores(0, 0, 0), 0)],
      [Default(k) EXCEPT !.confidence_breakdown[1] = 11, !.confidence = 62],
      [Default(k) EXCEPT !.confidence_breakdown[10] = -1, !.confidence = 44] }

\* One field of one setup, the regime or the number of setups off the schema.
SchemaInputs ==
    { Obj(g, <<Default(1), Default(2), Default(3)>>) :
        g \in {"trend", "range", "high_vol", "low_vol", "chop", "bull", ""} }
    \cup { Obj("trend", [i \in 1..n |-> Default(i)]) : n \in 0..MaxSetups }
    \cup UNION { { Obj("trend", [[i \in 1..3 |-> Default(i)] EXCEPT ![k] = s]) :
                      s \in OffSchemaSetups(k) } : k \in 1..3 }
    \cup { [Obj("trend", <<>>) EXCEPT !.data.fields_missing = TRUE] }

\* Setup 1 over declared confidence and weighted sums 50 .. 51.75.
ConfidenceInputs ==
    { Obj("low_vol", <<[Default(1) EXCEPT !.confidence = c,
                                          !.confidence_breakdown = Scores(s[1], s[2], s[3])],
                       Default(2), Default(3)>>) :
        c \in (50 - ConfSpread)..(50 + ConfSpread), s \in [1..3 -> 0..1] }

\* Setup 1 over take-profit ladders.
LadderInputs ==
    { Obj("high_vol", <<[Default(1) EXCEPT !.take_profits = Ladder(k, 100)],
                        Default(2), Default(3)>>) :
        k \in {"none", "full", "partial", "over"} }

\* Texts that are no JSON object.
OtherInputs == { [kind |-> k, data |-> NoData] : k \in JsonKinds \ {"object"} }

\* Setup 1 with a stop far from the entry: half and nearly all of the
\* entry below it, and the entry or more above it.
WideStopInputs ==
    { Obj("trend", <<MkSetup(1, d, 100, g, p, 1, 0), Default(2), Default(3)>>) :
        d \in {"long", "short"}, g \in {50, 99, -99, -100, -150}, p \in {50, 100} }

Inputs ==
    PriceInputs \cup RiskInputs \cup RankInputs \cup SchemaInputs
    \cup ConfidenceInputs \cup LadderInputs \cup OtherInputs \cup WideStopInputs

(***************************************************************************)
(* The state machine: a raw text arrives, validate_llm_output runs on it,  *)
(* and the returned output, written back as JSON, is validated again.      *)
(***************************************************************************)
Pending == [tag |-> "pending", output |-> NoData, exception |-> "", issues |-> <<>>]

\* The other components before any call of theirs.
NotBuilt == [tag |-> "pending", timestamp |-> 0, assets |-> <<>>]

NoAnchor == [tag |-> "pending"]

EngineIdle == snapshots = <<>> /\ market = NotBuilt

\* No analysis logged, no run made, no collector process (_current_day is
\* None).
ProgramIdle ==
    /\ analysis_log = <<>>
    /\ outcome = "idle"
    /\ _current_day = <<>>
    /\ _running = FALSE

AnchoringIdle ==
    /\ prev_analysis = [kind |-> "none"]
    /\ signals = <<>>
    /\ now = 0
    /\ anchor = NoAnchor
    /\ anchor2 = NoAnchor

Init ==
    /\ raw \in Inputs
    /\ pc = "start"
    /\ result = Pending
    /\ result2 = Pending
    /\ EngineIdle
    /\ AnchoringIdle
    /\ ProgramIdle

Validate ==
    /\ pc = "start"
    /\ result' = validate_llm_output(raw)
    /\ pc' = "validated"
    /\ UNCHANGED <<raw, result2, engineVars, anchoringVars, programVars>>

Revalidate ==
    /\ pc = "validated"
    /\ result.tag = "ok"
    /\ result2' = validate_llm_output([kind |-> "object", data |-> result.output])
    /\ pc' = "revalidated"
    /\ UNCHANGED <<raw, result, engineVars, anchoringVars, programVars>>

Next == Validate \/ Revalidate

Spec == Init /\ [][Next]_vars

(***************************************************************************)
(* Properties of validate_llm_output.                                      *)
(***************************************************************************)
\* The first run returned an output.
Returned == pc # "start" /\ result.tag = "ok"

Traded(s) == s.direction # "no_trade"

InSetups == raw.data.setups

OutSetups == result.output.setups

\* The risk percentage after the per-trade ceiling, stated independently.
Clamped(pct) == Min(pct, MAX_RISK_PER_TRADE_PCT)

\* The sum of the risk percentages of the traded setups.
TotalRisk(setups) ==
    SumSeq([i \in 1..Len(setups) |->
              IF Traded(setups[i]) THEN setups[i].risk.risk_pct_equity ELSE 0])

\* The sum the total-risk gate compares with the ceiling.
PreGateRisk ==
    SumSeq([i \in 1..Len(InSetups) |->
              IF Traded(InSetups[i]) THEN Clamped(InSetups[i].risk.risk_pct_equity) ELSE 0])

\* C1: in every returned output, every setup that is not no_trade has
\* recommended_leverage <= MAX_LEVERAGE, whatever leverage the model stated
\* and whatever entry trigger and stop the schema accepts.
C1_LeverageCeiling ==
    Returned =>
        \A i \in 1..Len(OutSetups) :
            Traded(OutSetups[i]) => OutSetups[i].risk.recommended_leverage <= MAX_LEVERAGE

\* C2: in every returned output the risk percentages of the traded setups
\* sum to at most MAX_TOTAL_RISK_PCT; when the sum before the gate exceeds
\* the ceiling each percentage is scaled by ceiling / sum and the new sum is
\* the ceiling within rounding.
C2_TotalRiskCeiling ==
    Returned =>
        /\ TotalRisk(OutSetups) <= MAX_TOTAL_RISK_PCT
        /\ PreGateRisk > MAX_TOTAL_RISK_PCT =>
              /\ \A i \in 1..Len(OutSetups) :
                    Traded(OutSetups[i]) =>
                        OutSetups[i].risk.risk_pct_equity =
                            RoundHalfEven(Clamped(InSetups[i].risk.risk_pct_equity)
                                              * MAX_TOTAL_RISK_PCT, PreGateRisk)
              /\ Abs(TotalRisk(OutSetups) - MAX_TOTAL_RISK_PCT) <= 2

\* C3: validating a returned output again yields no correction note and
\* leaves every risk field as the first run returned it.
C3_Idempotent ==
    pc = "revalidated" =>
        /\ result2.tag = "ok"
        /\ \A i \in 1..Len(result2.issues) : ~result2.issues[i].corrected
        /\ \A i \in 1..Len(OutSetups) :
              result2.output.setups[i].risk = OutSetups[i].risk

\* The "capped risk_pct" correction notes that print rank r.
CappedNotes(r) ==
    { i \in 1..Len(result.issues) :
        /\ result.issues[i].corrected
        /\ result.issues[i].kind = "capped risk_pct"
        /\ result.issues[i].rank = r }

\* The traded setups of rank r whose stated risk is above the ceiling.
StatedAbove(r) ==
    { i \in 1..Len(InSetups) :
        /\ Traded(InSetups[i])
        /\ InSetups[i].rank = r
        /\ InSetups[i].risk.risk_pct_equity > MAX_RISK_PER_TRADE_PCT }

\* C4: in every returned output each traded setup has risk_pct_equity <=
\* MAX_RISK_PER_TRADE_PCT, and a "capped risk_pct" note is recorded for a
\* setup exactly when its stated value was above the ceiling (notes name the
\* setup by its rank: as many notes per rank as setups of that rank above
\* the ceiling).
C4_PerTradeCap ==
    Returned =>
        /\ \A i \in 1..Len(OutSetups) :
              Traded(OutSetups[i]) =>
                  OutSetups[i].risk.risk_pct_equity <= MAX_RISK_PER_TRADE_PCT
        /\ \A r \in { InSetups[i].rank : i \in 1..Len(InSetups) } :
              Cardinality(CappedNotes(r)) = Cardinality(StatedAbove(r))

\* A returned output where one traded setup was capped and another, stated
\* under the ceiling, was not.
C4_Witness ==
    /\ Returned
    /\ \E i, j \in 1..Len(InSetups) :
          /\ Traded(InSetups[i]) /\ Traded(InSetups[j])
          /\ InSetups[i].risk.risk_pct_equity > MAX_RISK_PER_TRADE_PCT
          /\ OutSetups[i].risk.risk_pct_equity <= MAX_RISK_PER_TRADE_PCT
          /\ InSetups[j].risk.risk_pct_equity < MAX_RISK_PER_TRADE_PCT
          /\ InSetups[j].rank # InSetups[i].rank
          /\ CappedNotes(InSetups[i].rank) # {}
          /\ CappedNotes(InSetups[j].rank) = {}

\* Entry trigger and stop positive and distinct.
PositiveDistinct(s) ==
    s.entry_trigger > 0 /\ s.stop_level > 0 /\ s.entry_trigger # s.stop_level

\* |entry - stop|.
StopDistance(s) ==
    IF s.entry_trigger >= s.stop_level THEN s.entry_trigger - s.stop_level
    ELSE s.stop_level - s.entry_trigger

\* (EQUITY_USD * risk_pct / 100 / stop_distance_pct) / margin_budget as the
\* fraction <<n, d>>, d > 0, for the clamped risk percentage of a setup with
\* positive distinct entry and stop:
\* EQUITY_USD * pct * entry / (100 * |entry - stop| * margin_budget), with
\* EQUITY_USD cancelled against margin_budget.
RequiredLeverage(s) ==
    <<Clamped(s.risk.risk_pct_equity) * s.entry_trigger,
      100 * StopDistance(s) * (margin_budget \div EQUITY_USD)>>

ExceedsCap(s) == RequiredLeverage(s)[1] > MAX_LEVERAGE * RequiredLeverage(s)[2]

C6_LeverageIsCeiling ==
    Returned =>
        \A i \in 1..Len(InSetups) :
            (Traded(InSetups[i]) /\ PositiveDistinct(InSetups[i])) =>
                OutSetups[i].risk.recommended_leverage =
                    Min(CeilDiv(RequiredLeverage(InSetups[i])[1], RequiredLeverage(InSetups[i])[2]),
                        MAX_LEVERAGE)

\* The schema conditions C7 lists, for the parsed object.
ListedSchemaConditions(data) ==
    /\ Len(data.setups) = 3
    /\ data.regime \in {"trend", "range", "high_vol", "low_vol", "chop"}
    /\ \A i \in 1..Len(data.setups) :
          /\ data.setups[i].direction \in {"long", "short", "no_trade"}
          /\ data.setups[i].playbook \in {"A", "B", "C", "D", "E"}
          /\ data.setups[i].confidence >= 0 /\ data.setups[i].confidence <= 100
          /\ Len(data.setups[i].confidence_breakdown) = 10
          /\ \A k \in 1..Len(data.setups[i].confidence_breakdown) :
                /\ data.setups[i].confidence_breakdown[k] >= 0
                /\ data.setups[i].confidence_breakdown[k] <= 10

\* C7: schema validation is all-or-nothing: an output is returned only if
\* the parsed object has exactly 3 setups, a listed regime and in every
\* setup a listed direction and playbook, confidence in [0,100] and exactly
\* 10 scores in [0,10]; if anything of these is violated the result is
\* (none, non-empty issue list) and no setup is corrected or returned.
C7_SchemaAllOrNothing ==
    (pc # "start" /\ raw.kind = "object") =>
        /\ result.tag = "ok" => ListedSchemaConditions(raw.data)
        /\ ~ListedSchemaConditions(raw.data) =>
              /\ result.tag = "none"
              /\ result.issues # <<>>
              /\ result.output = NoData
              /\ \A i \in 1..Len(result.issues) : ~result.issues[i].corrected

\* A parsed object with three setups of which exactly one violates the
\* schema, and which was rejected.
C7_Witness ==
    /\ pc = "validated" /\ raw.kind = "object"
    /\ Len(raw.data.setups) = 3
    /\ valid_regime(raw.data.regime)
    /\ Cardinality({ i \in 1..3 :
          ~ListedSchemaConditions([raw.data EXCEPT
                !.setups = <<raw.data.setups[i], raw.data.setups[i], raw.data.setups[i]>>]) }) = 1
    /\ result.tag = "none"

\* Everything the schema asks of the parsed object but the confidence
\* breakdown check.
OtherwiseValid(data) == ~data.fields_missing /\ ListedSchemaConditions(data)

\* The weighted sum of the ten scores of a setup, in quarters.
ExactSum4(s) == SumSeq([k \in 1..10 |-> s.confidence_breakdown[k] * weights[k]])

\* q quarters to the nearest integer, a half to the even integer.
NearestInteger(q) ==
    IF q % 4 \in {0, 1} THEN q \div 4
    ELSE IF q % 4 = 3 THEN (q \div 4) + 1
    ELSE IF (q \div 4) % 2 = 0 THEN q \div 4 ELSE (q \div 4) + 1

\* C8 (as amended): a setup passes the confidence-breakdown check if and
\* only if |confidence - round(S)| <= 2, where S is the weighted sum of its
\* 10 scores and round(S) is S rounded to the nearest integer, a sum ending
\* in .5 to the even integer; so an object valid in everything else passes
\* the schema (is not rejected) exactly when each of its setups satisfies
\* this.
C8_ConfidenceWithinTwoOfRoundedSum ==
    (pc # "start" /\ raw.kind = "object" /\ OtherwiseValid(raw.data)) =>
        (result.tag # "none" <=>
            \A i \in 1..Len(InSetups) :
                Abs(InSetups[i].confidence - NearestInteger(ExactSum4(InSetups[i]))) <= 2)

\* C8 as stated: a setup passes if and only if |confidence - S| <= 2 for the
\* exact weighted sum S (in quarters: |4 * confidence - 4S| <= 8).
C8_ConfidenceWithinTwoOfExactSum ==
    (pc # "start" /\ raw.kind = "object" /\ OtherwiseValid(raw.data)) =>
        (result.tag # "none" <=>
            \A i \in 1..Len(InSetups) :
                Abs(4 * InSetups[i].confidence - ExactSum4(InSetups[i])) <= 8)

\* A returned output with a setup whose weighted sum is no integer and
\* whose confidence is more than 2 away from it, and a rejected one whose
\* confidence is 3 away from the rounded sum.
C8_Witness ==
    /\ pc = "validated" /\ raw.kind = "object" /\ OtherwiseValid(raw.data)
    /\ WeightedSum4(InSetups[1].confidence_breakdown) % 4 # 0
    /\ \/ /\ result.tag = "ok"
          /\ Abs(4 * InSetups[1].confidence - WeightedSum4(InSetups[1].confidence_breakdown)) > 8
       \/ /\ result.tag = "none"
          /\ Abs(InSetups[1].confidence - ExpectedConfidence(InSetups[1].confidence_breakdown)) = 3

\* C9: in every returned output the take-profit percentages of each setup
\* sum to 100; a response with a ladder summing to another value is
\* rejected.
C9_LadderSumsTo100 ==
    Returned =>
        \A i \in 1..Len(OutSetups) :
            SumSeq([k \in 1..Len(OutSetups[i].take_profits) |->
                      OutSetups[i].take_profits[k].pct]) = 100

\* C10: for every raw text that is not a JSON object matching the schema
\* (unparseable, or a JSON array, number, string or null, or an object the
\* schema rejects) the result is (none, non-empty diagnostic list) and no
\* exception is raised.
C10_RejectsWithoutRaising ==
    (pc # "start" /\ (raw.kind # "object" \/ ~OtherwiseValid(raw.data))) =>
        /\ result.tag = "none"
        /\ result.issues # <<>>

\* Everything of a setup outside its risk block.
Qualitative(s) ==
    [ rank |-> s.rank, asset |-> s.asset, direction |-> s.direction,
      playbook |-> s.playbook, confidence |-> s.confidence,
      confidence_breakdown |-> s.confidence_breakdown,
      entry_trigger |-> s.entry_trigger, stop_level |-> s.stop_level,
      take_profits |-> s.take_profits, invalidations |-> s.invalidations,
      red_flags |-> s.red_flags,
      cancel_if_not_triggered_minutes |-> s.risk.cancel_if_not_triggered_minutes,
      time_stop_minutes |-> s.risk.time_stop_minutes ]

None == <<>>

Some(v) == <<v>>

\* Python truthiness of an optional number: neither None nor 0.
Truthy(o) == o # None /\ o[1] # 0

\* a or b
Or(a, b) == IF Truthy(a) THEN a ELSE b

Max(a, b) == IF a >= b THEN a ELSE b

\* max(...) / min(...) of a non-empty set of numbers.
MaxOf(S) == CHOOSE x \in S : \A y \in S : y <= x

MinOf(S) == CHOOSE x \in S : \A y \in S : x <= y

\* config.py line 26: ASSETS, the default universe.
ASSETS == <<"BTC", "ETH">>

\* The dict {} and a dict whose keys are all null.
EmptyDict ==
    [ mid |-> None, mark |-> None, funding |-> None, open_interest |-> None,
      orderbook |-> None, candles_15m |-> <<>>, candles_1h |-> <<>>,
      candles_4h |-> <<>>, candles_1d |-> <<>> ]

\* snap.get("assets", {}).get(symbol, {})
AssetData(snap, symbol) ==
    IF symbol \in DOMAIN snap.assets THEN snap.assets[symbol] ELSE EmptyDict

\* ---------- BAR STATS ----------

\* Lines 107-111: the truthy mids of the symbol, newest first.
Mids(symbol, snaps) ==
    [ i \in 1..Len(SelectSeq(snaps, LAMBDA s : Truthy(AssetData(s, symbol).mid))) |->
        AssetData(SelectSeq(snaps, LAMBDA s : Truthy(AssetData(s, symbol).mid))[i],
                  symbol).mid[1] ]

\* round((current - ref) / ref * 100, 4)
PctChange(current, ref) == RoundFrac((current - ref) * 1000000, ref)

\* Lines 116-118: _ret(idx), for len(mids) >= 2.  mids[i] of the code is
\* mids[i + 1] here.
_ret(mids, idx) ==
    IF mids[Min(idx, Len(mids) - 1) + 1] # 0
    THEN Some(PctChange(mids[1], mids[Min(idx, Len(mids) - 1) + 1]))
    ELSE None

\* Lines 113-121: ret_1m / ret_5m / ret_15m for idx = 1, 5, 15.
SnapshotReturn(mids, idx) == IF Len(mids) >= 2 THEN _ret(mids, idx) ELSE None

\* Lines 139-147.
_return_from_candles(candles, periods_back) ==
    IF Len(candles) < periods_back + 1 THEN None
    ELSE IF candles[Len(candles)].c = 0 \/ candles[Len(candles) - periods_back].c = 0
    THEN None
    ELSE Some(PctChange(candles[Len(candles)].c, candles[Len(candles) - periods_back].c))

\* The window candles[-period:] of _compute_atr: its length and the 0-based
\* index of its first candle.
WindowLen(candles, period) == Min(period, Len(candles))

WindowStart(candles, period) == Len(candles) - WindowLen(candles, period)

\* The candle i (0-based) of the window.
WindowCandle(candles, period, i) == candles[WindowStart(candles, period) + i + 1]

\* Line 160: prev_c = candles[max(0, len(candles) - period + i - 1)].c
PrevClose(candles, period, i) ==
    candles[Max(0, Len(candles) - period + i - 1) + 1].c

\* max(h - l, abs(h - prev_c), abs(l - prev_c))
Max3(a, b, c) == Max(a, Max(b, c))

\* Lines 159-166: tr of candle i of the window.
TrueRange(candles, period, i) ==
    IF i > 0 /\ PrevClose(candles, period, i) # 0
    THEN Max3(WindowCandle(candles, period, i).h - WindowCandle(candles, period, i).l,
              Abs(WindowCandle(candles, period, i).h - PrevClose(candles, period, i)),
              Abs(WindowCandle(candles, period, i).l - PrevClose(candles, period, i)))
    ELSE WindowCandle(candles, period, i).h - WindowCandle(candles, period, i).l

\* Lines 156-158: the candles of the window that are not skipped.
Ranged(candles, period) ==
    { i \in 0..(WindowLen(candles, period) - 1) :
        WindowCandle(candles, period, i).h # 0 /\ WindowCandle(candles, period, i).l # 0 }

\* sum(trs)
SumTrueRanges(candles, period) ==
    SumSeq([k \in 1..WindowLen(candles, period) |->
              IF (k - 1) \in Ranged(candles, period)
              THEN TrueRange(candles, period, k - 1) ELSE 0])

\* Lines 150-170.
_compute_atr(candles, period) ==
    IF Len(candles) < 3 THEN None
    ELSE IF Ranged(candles, period) = {} THEN None
    ELSE Some(RoundHalfEven(SumTrueRanges(candles, period) * 10000,
                            Cardinality(Ranged(candles, period))))

\* Line 128-130: the period of the three ATR calls.
ATR_PERIOD == 14

\* Lines 104-136.
_compute_bar_stats(symbol, data, snaps) ==
    [ ret_1m  |-> SnapshotReturn(Mids(symbol, snaps), 1),
      ret_5m  |-> SnapshotReturn(Mids(symbol, snaps), 5),
      ret_15m |-> SnapshotReturn(Mids(symbol, snaps), 15),
      ret_1h  |-> _return_from_candles(data.candles_1h, 1),
      ret_4h  |-> _return_from_candles(data.candles_4h, 1),
      atr_15m |-> _compute_atr(data.candles_15m, ATR_PERIOD),
      atr_1h  |-> _compute_atr(data.candles_1h, ATR_PERIOD),
      atr_4h  |-> _compute_atr(data.candles_4h, ATR_PERIOD) ]

\* ---------- KEY LEVELS ----------

\* Line 177: mid = data.get("mid") or data.get("mark") or 0
LevelsMid(data) ==
    IF Truthy(data.mid) THEN data.mid[1]
    ELSE IF Truthy(data.mark) THEN data.mark[1] ELSE 0

\* Lines 184 and 214: the highs of the candles that have one.
Highs(candles) == { candles[i].h : i \in { k \in 1..Len(candles) : candles[k].h # 0 } }

\* Lines 185 and 215: the positive lows.
Lows(candles) == { candles[i].l : i \in { k \in 1..Len(candles) : candles[k].l > 0 } }

\* float(x) or None
OrNone(x) == IF x # 0 THEN Some(x) ELSE None

\* Line 198: prev = candles_1d[-2], for len(candles_1d) >= 2.
PriorDay(candles_1d) == candles_1d[Len(candles_1d) - 1]

\* Line 204 under line 196.
PivotsDerived(candles_1d) ==
    /\ Len(candles_1d) >= 2
    /\ PriorDay(candles_1d).h # 0
    /\ PriorDay(candles_1d).l # 0
    /\ PriorDay(candles_1d).c # 0

\* Line 205: 3 * pp = H + L + C.
ThreePP(prev) == prev.h + prev.l + prev.c

\* The pivots with PP rounded before the other four are derived from it.
Pivots_FromRoundedPP(prev) ==
    [ pivot_pp |-> Some(RoundHalfEven(ThreePP(prev) * 100, 3)),
      pivot_r1 |-> Some(2 * RoundHalfEven(ThreePP(prev) * 100, 3) - prev.l * 100),
      pivot_s1 |-> Some(2 * RoundHalfEven(ThreePP(prev) * 100, 3) - prev.h * 100),
      pivot_r2 |-> Some(RoundHalfEven(ThreePP(prev) * 100, 3) + (prev.h - prev.l) * 100),
      pivot_s2 |-> Some(RoundHalfEven(ThreePP(prev) * 100, 3) - (prev.h - prev.l) * 100) ]

\* Lines 205-210: the five pivots, each rounded to cents from the unrounded pp.
Pivots(prev) ==
    [ pivot_pp |-> Some(RoundHalfEven(ThreePP(prev) * 100, 3)),
      pivot_r1 |-> Some(RoundHalfEven((2 * ThreePP(prev) - 3 * prev.l) * 100, 3)),
      pivot_s1 |-> Some(RoundHalfEven((2 * ThreePP(prev) - 3 * prev.h) * 100, 3)),
      pivot_r2 |-> Some(RoundHalfEven((ThreePP(prev) + 3 * (prev.h - prev.l)) * 100, 3)),
      pivot_s2 |-> Some(RoundHalfEven((ThreePP(prev) - 3 * (prev.h - prev.l)) * 100, 3)) ]

\* Line 193.
NoPivots ==
    [ pivot_pp |-> None, pivot_r1 |-> None, pivot_s1 |-> None,
      pivot_r2 |-> None, pivot_s2 |-> None ]

\* Line 242: the candles that count for the VWAP.
Priced(candles) ==
    { i \in 1..Len(candles) :
        candles[i].h # 0 /\ candles[i].l # 0 /\ candles[i].c # 0 /\ candles[i].v > 0 }

\* Line 244: total_v
TotalVolume(candles) ==
    SumSeq([i \in 1..Len(candles) |-> IF i \in Priced(candles) THEN candles[i].v ELSE 0])

\* Line 243: 3 * total_vp
ThreeTotalVP(candles) ==
    SumSeq([i \in 1..Len(candles) |->
              IF i \in Priced(candles)
              THEN (candles[i].h + candles[i].l + candles[i].c) * candles[i].v ELSE 0])

\* Lines 234-247.
_compute_vwap(candles) ==
    IF candles = <<>> THEN None
    ELSE IF TotalVolume(candles) = 0 THEN None
    ELSE Some(RoundHalfEven(ThreeTotalVP(candles) * 100, 3 * TotalVolume(candles)))

\* Lines 175-231.
_compute_key_levels(symbol, data) ==
    [ day_high |-> IF Highs(data.candles_15m) # {} THEN MaxOf(Highs(data.candles_15m))
                   ELSE LevelsMid(data),
      day_low  |-> IF Lows(data.candles_15m) # {} THEN MinOf(Lows(data.candles_15m))
                   ELSE LevelsMid(data),
      prior_day_high  |-> IF Len(data.candles_1d) >= 2
                          THEN OrNone(PriorDay(data.candles_1d).h) ELSE None,
      prior_day_low   |-> IF Len(data.candles_1d) >= 2
                          THEN OrNone(PriorDay(data.candles_1d).l) ELSE None,
      prior_day_close |-> IF Len(data.candles_1d) >= 2
                          THEN OrNone(PriorDay(data.candles_1d).c) ELSE None,
      vwap   |-> _compute_vwap(data.candles_15m),
      pivots |-> IF PivotsDerived(data.candles_1d)
                 THEN Pivots(PriorDay(data.candles_1d)) ELSE NoPivots,
      week_high |-> IF Highs(data.candles_1d) # {} THEN Some(MaxOf(Highs(data.candles_1d)))
                    ELSE None,
      week_low  |-> IF Lows(data.candles_1d) # {} THEN Some(MinOf(Lows(data.candles_1d)))
                    ELSE None ]

\* ---------- ORDERBOOK ----------

\* Line 253: not book or not book.get("bids") or not book.get("asks")
NoBook(book) == book = None \/ book[1].bids = <<>> \/ book[1].asks = <<>>

\* Line 261: abs(l["px"] - ref_px) / ref_px <= pct / 100, for ref_px > 0 and
\* pct / 100 = 1 / per: per = 1000 for 0.1 %, 200 for 0.5 %.
Near(level, ref_px, per) == Abs(level.px - ref_px) * per <= ref_px

\* Lines 260-261: _depth, in cents.
_depth(levels, ref_px, per) ==
    100 * SumSeq([i \in 1..Len(levels) |->
                    IF Near(levels[i], ref_px, per) THEN levels[i].sz * levels[i].px ELSE 0])

\* The ZeroDivisionError of line 261 for a reference price of 0.
DepthRaises(book) == book[1].bids[1].px = 0 \/ book[1].asks[1].px = 0

\* Line 258.
SpreadBps(best_bid, best_ask) ==
    IF best_bid > 0 THEN RoundHalfEven((best_ask - best_bid) * 1000000, best_bid) ELSE 0

\* Line 266, on the two near depths.
Imbalance(bid_d01, ask_d01) ==
    IF bid_d01 + ask_d01 > 0
    THEN RoundHalfEven((bid_d01 - ask_d01) * 1000, bid_d01 + ask_d01) ELSE 0

\* Lines 255-272: the state of a book with two non-empty sides and non-zero
\* best prices.
BookState(bids, asks) ==
    [ spread_bps      |-> SpreadBps(bids[1].px, asks[1].px),
      bid_depth_01pct |-> _depth(bids, bids[1].px, 1000),
      ask_depth_01pct |-> _depth(asks, asks[1].px, 1000),
      bid_depth_05pct |-> _depth(bids, bids[1].px, 200),
      ask_depth_05pct |-> _depth(asks, asks[1].px, 200),
      imbalance       |-> Imbalance(_depth(bids, bids[1].px, 1000),
                                    _depth(asks, asks[1].px, 1000)),
      best_bid        |-> bids[1].px,
      best_ask        |-> asks[1].px ]

\* Lines 252-272.  tag "none" for None, "raise" for the ZeroDivisionError.
_compute_orderbook_state(book, mid) ==
    IF NoBook(book) THEN [tag |-> "none", state |-> None]
    ELSE IF DepthRaises(book) THEN [tag |-> "raise", state |-> None]
    ELSE [tag |-> "ok", state |-> Some(BookState(book[1].bids, book[1].asks))]

\* Lines 90-94: the neutral placeholder.
Placeholder(mid) ==
    [ spread_bps |-> 0, bid_depth_01pct |-> 0, ask_depth_01pct |-> 0,
      bid_depth_05pct |-> 0, ask_depth_05pct |-> 0, imbalance |-> 0,
      best_bid |-> mid, best_ask |-> mid ]

\* Lines 84-85: round(max(0.0, min(1.0, 0.5 + imbalance * 0.5)), 3), the
\* ratio being (1000 + imbalance) / 2 thousandths.  An odd imbalance makes
\* a decimal tie that the binary value resolves; the books of EngineInputs
\* have even imbalances.
BuyRatio(imbalance) == RoundHalfEven(Max(0, Min(2000, 1000 + imbalance)), 2)

\* Lines 82-85, for the result of _compute_orderbook_state.
Flow(orderbook) ==
    [ aggressive_buy_ratio |-> IF orderbook.tag = "ok"
                               THEN Some(BuyRatio(orderbook.state[1].imbalance)) ELSE None,
      signed_volume_delta  |-> None ]

\* ---------- FUNDING / OI ----------

\* x or 0.0
OrZero(o) == IF Truthy(o) THEN o[1] ELSE 0

\* Lines 285 and 293: the lag of the 1h comparison, in snapshots.
HOUR_BACK == 60

\* snapshots[back_idx] for back_idx = min(60, len(snapshots) - 1).
HourAgo(symbol, snaps) == AssetData(snaps[Min(HOUR_BACK, Len(snaps) - 1) + 1], symbol)

\* Lines 308-325, thresholds 0.01 and 0.0001.
_classify_funding_trend(current, hour_ago) ==
    IF current > 1000 THEN "extreme_long"
    ELSE IF current < -1000 THEN "extreme_short"
    ELSE IF hour_ago = None THEN "stable"
    ELSE IF Abs(current - hour_ago[1]) < 10 THEN "stable"
    ELSE IF current - hour_ago[1] > 0 THEN "rising"
    ELSE "falling"

\* Lines 291-294.
Funding1hAgo(symbol, snaps) ==
    IF Len(snaps) >= 2 THEN HourAgo(symbol, snaps).funding ELSE None

\* Lines 277-305.  oi_delta_1h in hundredths.
_compute_funding_oi(symbol, data, snaps) ==
    [ funding_rate   |-> OrZero(data.funding),
      open_interest  |-> OrZero(data.open_interest),
      oi_delta_1h    |-> IF Len(snaps) >= 2 /\ HourAgo(symbol, snaps).open_interest # None
                         THEN Some((OrZero(data.open_interest)
                                    - HourAgo(symbol, snaps).open_interest[1]) * 100)
                         ELSE None,
      funding_1h_ago |-> Funding1hAgo(symbol, snaps),
      funding_trend  |-> _classify_funding_trend(OrZero(data.funding),
                                                 Funding1hAgo(symbol, snaps)) ]

\* ---------- ASSET STATE ----------

\* Lines 71-72.
Mark(data) == Or(data.mark, data.mid)

Mid(data) == Or(data.mid, Or(data.mark, data.mid))

\* Priceless looking at the mid only.
Priceless_MidOnly(data) == ~Truthy(data.mid)

\* Lines 73-74: not mark or not mid.
Priceless(data) == ~Truthy(Mark(data)) \/ ~Truthy(Mid(data))

\* Lines 76-99, for priced data whose book does not raise.
AssetState(symbol, ts, data, snaps) ==
    [ symbol     |-> symbol,
      timestamp  |-> ts,
      price      |-> [mark |-> Mark(data)[1], mid |-> Mid(data)[1], last |-> Mid(data)[1]],
      bar_stats  |-> _compute_bar_stats(symbol, data, snaps),
      key_levels |-> _compute_key_levels(symbol, data),
      orderbook  |-> IF _compute_orderbook_state(data.orderbook, Mid(data)[1]).tag = "ok"
                     THEN _compute_orderbook_state(data.orderbook, Mid(data)[1]).state[1]
                     ELSE Placeholder(Mid(data)[1]),
      flow       |-> Flow(_compute_orderbook_state(data.orderbook, Mid(data)[1])),
      funding_oi |-> _compute_funding_oi(symbol, data, snaps) ]

\* Lines 68-99.  tag "none" for None, "raise" for an exception.
_build_asset_state(symbol, ts, data, snaps) ==
    IF Priceless(data) THEN [tag |-> "none", state |-> None]
    ELSE IF _compute_orderbook_state(data.orderbook, Mid(data)[1]).tag = "raise"
    THEN [tag |-> "raise", state |-> None]
    ELSE [tag |-> "ok", state |-> Some(AssetState(symbol, ts, data, snaps))]

\* ---------- MARKET STATE ----------

\* Lines 44-51: one iteration of the loop over ASSETS.
AssetStep(acc, symbol, snaps) ==
    IF AssetData(snaps[1], symbol) = EmptyDict THEN acc
    ELSE IF _build_asset_state(symbol, snaps[1].timestamp,
                               AssetData(snaps[1], symbol), snaps).tag = "raise"
    THEN [acc EXCEPT !.raised = TRUE]
    ELSE IF _build_asset_state(symbol, snaps[1].timestamp,
                               AssetData(snaps[1], symbol), snaps).tag = "none"
    THEN acc
    ELSE [acc EXCEPT !.assets =
             Append(@, _build_asset_state(symbol, snaps[1].timestamp,
                                          AssetData(snaps[1], symbol), snaps).state[1])]

\* Lines 42-51: the loop, stopping at the first exception.
RECURSIVE AssetLoop(_, _, _)
AssetLoop(todo, acc, snaps) ==
    IF todo = <<>> \/ acc.raised THEN acc
    ELSE AssetLoop(Tail(todo), AssetStep(acc, Head(todo), snaps), snaps)

\* Lines 57-63, amounts in cents.
RiskContext ==
    [ equity_usd |-> EQUITY_USD * 100,
      max_loss_per_trade_usd |-> (EQUITY_USD * MAX_RISK_PER_TRADE_PCT) \div 100,
      max_total_risk_usd |-> (EQUITY_USD * MAX_TOTAL_RISK_PCT) \div 100,
      min_leverage |-> MIN_LEVERAGE,
      max_leverage |-> MAX_LEVERAGE ]

\* Lines 53-65 on the state the loop ended in.
MarketState(snaps, loop) ==
    IF loop.raised
    THEN [tag |-> "raise", timestamp |-> 0, assets |-> <<>>]
    ELSE IF loop.assets = <<>>
    THEN [tag |-> "none", timestamp |-> 0, assets |-> <<>>]
    ELSE [tag |-> "ok", timestamp |-> snaps[1].timestamp, assets |-> loop.assets,
          risk_context |-> RiskContext]

\* Lines 33-65.
build_market_state(snaps) ==
    IF snaps = <<>> THEN [tag |-> "none", timestamp |-> 0, assets |-> <<>>]
    ELSE MarketState(snaps, AssetLoop(ASSETS, [raised |-> FALSE, assets |-> <<>>], snaps))

(***************************************************************************)
(* The snapshot sequences the feature engine is run on (newest first).     *)
(***************************************************************************)
MaxHistory == 17
MaxCandles == 16
MaxDaily == 3

Candle(h, l, c, v) == [h |-> h, l |-> l, c |-> c, v |-> v]

Level(px, sz) == [px |-> px, sz |-> sz]

Book(bids, asks) == Some([bids |-> bids, asks |-> asks])

\* A book around a mid price: one level each side.
TightBook(mid) == Book(<<Level(mid - 1, 2)>>, <<Level(mid + 1, 2)>>)

DailyCandles == <<Candle(120, 80, 95, 7), Candle(110, 90, 100, 9), Candle(105, 95, 101, 4)>>

\* What the collector stores for an asset (collectors/hyperliquid.py lines
\* 118-130), around a mid price.
Quote(mid) ==
    [ mid |-> Some(mid), mark |-> Some(mid), funding |-> Some(1), open_interest |-> Some(500),
      orderbook |-> TightBook(mid),
      candles_15m |-> <<Candle(mid + 2, mid - 2, mid, 5), Candle(mid + 1, mid - 1, mid, 5),
                        Candle(mid + 3, mid - 1, mid + 1, 5)>>,
      candles_1h |-> <<Candle(mid + 4, mid - 4, mid, 20), Candle(mid + 2, mid - 5, mid - 1, 20)>>,
      candles_4h |-> <<>>,
      candles_1d |-> DailyCandles ]

\* One snapshot: timestamp and the entries of BTC, ETH and SOL; an entry
\* that is None is absent from the "assets" dict.
Snapshot(ts, btc, eth, sol) ==
    [ timestamp |-> ts,
      assets |-> [ s \in { x \in {"BTC", "ETH", "SOL"} :
                             \/ x = "BTC" /\ btc # None
                             \/ x = "ETH" /\ eth # None
                             \/ x = "SOL" /\ sol # None } |->
                     IF s = "BTC" THEN btc[1] ELSE IF s = "ETH" THEN eth[1] ELSE sol[1] ] ]

\* The entries of one asset in the latest snapshot: absent, {}, without a
\* price, with one of mid and mark, with a zero mid, complete.
UniverseEntries ==
    { None, Some(EmptyDict),
      Some([Quote(100) EXCEPT !.mid = None, !.mark = None]),
      Some([Quote(100) EXCEPT !.mid = Some(0), !.mark = None]),
      Some([Quote(100) EXCEPT !.mark = None]),
      Some([Quote(100) EXCEPT !.mid = None]),
      Some(Quote(100)) }

UniverseInputs ==
    { <<Snapshot(1000, b, e, s)>> :
        b \in UniverseEntries, e \in UniverseEntries, s \in {None, Some(Quote(20))} }

\* Books: absent, with an empty side, with a zero best price, regular.
Books ==
    { None, Book(<<>>, <<>>), Book(<<>>, <<Level(101, 2)>>), Book(<<Level(99, 2)>>, <<>>),
      Book(<<Level(0, 2)>>, <<Level(101, 2)>>), Book(<<Level(99, 2)>>, <<Level(0, 2)>>),
      Book(<<Level(0, 0)>>, <<Level(0, 0)>>),
      TightBook(100),
      Book(<<Level(1000, 3), Level(999, 1), Level(996, 4), Level(900, 5)>>,
           <<Level(1001, 2), Level(1002, 1), Level(1006, 2)>>),
      Book(<<Level(1000, 0)>>, <<Level(1001, 0)>>) }

BookInputs ==
    { <<Snapshot(1000, Some([Quote(100) EXCEPT !.orderbook = b]), e, None)>> :
        b \in Books, e \in {None, Some(Quote(50)), Some([Quote(50) EXCEPT !.orderbook = None])} }

\* The BTC mid of snapshot k (1 = latest) under a pattern.
HistoryMid(pattern, k) ==
    CASE pattern = "falling" -> Some(101 - k)
      [] pattern = "flat"    -> Some(100)
      [] pattern = "null"    -> IF k = 2 THEN None ELSE Some(101 - k)
      [] pattern = "zero"    -> IF k = 3 THEN Some(0) ELSE Some(101 - k)
      [] pattern = "absent"  -> Some(101 - k)

HistorySnapshot(pattern, k) ==
    Snapshot(1000 - k,
             IF pattern = "absent" /\ k = 2 THEN None
             ELSE Some([ EmptyDict EXCEPT !.mid = HistoryMid(pattern, k),
                                          !.funding = Some(k), !.open_interest = Some(500 + k) ]),
             None, None)

\* Histories of 1 .. MaxHistory snapshots of BTC.
HistoryInputs ==
    { [k \in 1..n |-> HistorySnapshot(p, k)] :
        n \in 1..MaxHistory, p \in {"falling", "flat", "null", "zero", "absent"} }

\* Candles for the ATR: regular ones, one whose close gaps away from its
\* range, one without a high, one without a close.
AtrCandles ==
    { Candle(10, 9, 9, 1), Candle(12, 9, 20, 1), Candle(0, 9, 9, 1), Candle(11, 8, 0, 1) }

\* Candle i of a long series under a shape.
ShapedCandle(shape, i) ==
    CASE shape = "even"  -> Candle(10, 9, 9, 1)
      [] shape = "gappy" -> IF i % 3 = 0 THEN Candle(12, 9, 20, 1) ELSE Candle(10, 9, 9, 1)
      [] shape = "holes" -> IF i % 4 = 1 THEN Candle(0, 9, 9, 1) ELSE Candle(10 + (i % 2), 9, 10, 1)

\* Series of up to 3 candles over AtrCandles, and shaped series of up to
\* MaxCandles candles.
AtrSeries ==
    UNION { [1..n -> AtrCandles] : n \in 0..3 }
    \cup { [i \in 1..n |-> ShapedCandle(s, i)] : n \in 4..MaxCandles, s \in {"even", "gappy", "holes"} }

AtrInputs ==
    { <<Snapshot(1000, Some([Quote(100) EXCEPT !.candles_15m = cs]), None, None)>> :
        cs \in AtrSeries }

\* Daily candles: up to MaxDaily of them, the second-to-last over known and
\* unknown high / low / close.
PriorDays == { Candle(h, l, c, 9) : h \in {0, 110, 111}, l \in {0, 90}, c \in {0, 100, 101} }

DailySeries ==
    { <<>>, <<Candle(110, 90, 100, 9)>> }
    \cup { [i \in 1..n |-> IF i = n THEN Candle(105, 95, 101, 4)
                            ELSE IF i = n - 1 THEN p ELSE Candle(130, 70, 99, 9)] :
             p \in PriorDays, n \in 2..MaxDaily }

DailyInputs ==
    { <<Snapshot(1000, Some([Quote(100) EXCEPT !.candles_1d = ds]), None, None)>> :
        ds \in DailySeries }

\* The latest entry and the oldest one over known, zero and missing
\* funding rates and open interest; one snapshot alone as well.
FundingEntry(funding, open_interest) ==
    [Quote(100) EXCEPT !.funding = funding, !.open_interest = open_interest]

FundingInputs ==
    { <<Snapshot(1000, Some(FundingEntry(f, oi)), None, None)>> \o older :
        f \in {None, Some(0), Some(1), Some(30), Some(1500), Some(-1500)},
        oi \in {None, Some(0), Some(500)},
        older \in { <<>> }
                  \cup { <<Snapshot(999, Some(FundingEntry(g, old_oi)), None, None)>> :
                            g \in {None, Some(1)}, old_oi \in {None, Some(480)} } }

EngineInputs ==
    UniverseInputs \cup BookInputs \cup HistoryInputs \cup AtrInputs \cup DailyInputs
    \cup FundingInputs

(***************************************************************************)
(* The state machine of the feature engine: cmd_analyze loads the latest   *)
(* snapshots and builds the market state from them.                        *)
(***************************************************************************)
ValidatorIdle ==
    /\ raw = [kind |-> "null", data |-> NoData]
    /\ result = Pending
    /\ result2 = Pending

InitEngine ==
    /\ snapshots \in EngineInputs
    /\ market = NotBuilt
    /\ pc = "start"
    /\ ValidatorIdle
    /\ AnchoringIdle
    /\ ProgramIdle

Build ==
    /\ pc = "start"
    /\ market' = build_market_state(snapshots)
    /\ pc' = "built"
    /\ UNCHANGED <<snapshots, validatorVars, anchoringVars, programVars>>

NextEngine == Build

SpecEngine == InitEngine /\ [][NextEngine]_vars

(***************************************************************************)
(* Properties of build_market_state.                                       *)
(***************************************************************************)
\* build_market_state ran on a non-empty snapshot sequence.
Built == pc = "built" /\ snapshots # <<>>

\* The symbols of the returned asset states, in order.
BuiltSymbols == [i \in 1..Len(market.assets) |-> market.assets[i].symbol]

\* The symbol has an entry in the latest snapshot.
HasEntry(symbol) == symbol \in DOMAIN snapshots[1].assets

\* The symbol's entry in the latest snapshot carries a non-zero mid or mark.
HasPrice(symbol) ==
    /\ HasEntry(symbol)
    /\ \/ Truthy(snapshots[1].assets[symbol].mid)
       \/ Truthy(snapshots[1].assets[symbol].mark)

BookUnusable(symbol) ==
    \/ snapshots[1].assets[symbol].orderbook = None
    \/ snapshots[1].assets[symbol].orderbook[1].bids = <<>>
    \/ snapshots[1].assets[symbol].orderbook[1].asks = <<>>
    \/ snapshots[1].assets[symbol].orderbook[1].bids[1].px = 0
    \/ snapshots[1].assets[symbol].orderbook[1].asks[1].px = 0

\* C13: whatever the books of the latest snapshot are, build_market_state
\* raises no exception, and in every asset state it returns the orderbook of
\* a symbol whose book is absent, has an empty side or has a best bid or
\* best ask of 0 is the neutral placeholder with spread 0 and imbalance 0.
C13_UnusableBookGivesPlaceholder ==
    Built =>
        /\ market.tag # "raise"
        /\ \A i \in 1..Len(market.assets) :
              BookUnusable(market.assets[i].symbol) =>
                  /\ market.assets[i].orderbook.spread_bps = 0
                  /\ market.assets[i].orderbook.imbalance = 0

\* The N-step return the statement describes, over the mid sequence of an
\* asset (newest first): unknown with N or fewer points or a zero reference.
LaggedReturn(mids, n) ==
    IF Len(mids) > n /\ mids[n + 1] # 0
    THEN Some(RoundFrac((mids[1] - mids[n + 1]) * 1000000, mids[n + 1]))
    ELSE None

\* C18: in every returned asset state, for N in {1, 5, 15}, the N-step
\* return is round((mids[0] - mids[N]) / mids[N] * 100, 4) when the asset's
\* mid sequence has more than N points and mids[N] is not 0, and is unknown
\* when it has N or fewer points or the reference is 0.
C18_ReturnsNeedEnoughHistory ==
    (Built /\ market.tag = "ok") =>
        \A i \in 1..Len(market.assets) :
            /\ market.assets[i].bar_stats.ret_1m
                 = LaggedReturn(Mids(market.assets[i].symbol, snapshots), 1)
            /\ market.assets[i].bar_stats.ret_5m
                 = LaggedReturn(Mids(market.assets[i].symbol, snapshots), 5)
            /\ market.assets[i].bar_stats.ret_15m
                 = LaggedReturn(Mids(market.assets[i].symbol, snapshots), 15)

\* The true range the statement describes for candle k (1-based) of a
\* series whose window starts at candle first.
StatedTrueRange(candles, first, k) ==
    IF k = first THEN candles[k].h - candles[k].l
    ELSE Max3(candles[k].h - candles[k].l,
              Abs(candles[k].h - candles[k - 1].c),
              Abs(candles[k].l - candles[k - 1].c))

\* The first candle of the window of the last min(period, len) candles.
StatedFirst(candles, period) == Len(candles) - Min(period, Len(candles)) + 1

\* The ATR the statement describes, to 4 decimals.
StatedAtr(candles, period) ==
    IF Len(candles) < 3 THEN None
    ELSE Some(RoundHalfEven(
             SumSeq([j \in 1..Min(period, Len(candles)) |->
                       StatedTrueRange(candles, StatedFirst(candles, period),
                                       StatedFirst(candles, period) + j - 1)]) * 10000,
             Min(period, Len(candles))))

\* Every candle of the series has a high, a low and a close.
Complete(candles) ==
    \A k \in 1..Len(candles) : candles[k].h # 0 /\ candles[k].l # 0 /\ candles[k].c # 0

\* C19: for every series of complete candles, of any length, the ATR is
\* unknown for fewer than 3 candles and otherwise the mean of the true
\* ranges of the last min(period, len) candles: high - low for the first
\* candle of that window, and max(high - low, |high - c|, |low - c|) for
\* every later one, c being the close of the candle just before it.
C19_AtrIsMeanTrueRange ==
    (Built /\ market.tag = "ok") =>
        \A i \in 1..Len(market.assets) :
            Complete(snapshots[1].assets[market.assets[i].symbol].candles_15m) =>
                market.assets[i].bar_stats.atr_15m
                  = StatedAtr(snapshots[1].assets[market.assets[i].symbol].candles_15m,
                              ATR_PERIOD)

\* The daily candles of the symbol in the latest snapshot.
Daily(symbol) == snapshots[1].assets[symbol].candles_1d

\* The second-to-last daily candle exists and has a high, a low and a close.
PriorDayKnown(symbol) ==
    /\ Len(Daily(symbol)) >= 2
    /\ Daily(symbol)[Len(Daily(symbol)) - 1].h # 0
    /\ Daily(symbol)[Len(Daily(symbol)) - 1].l # 0
    /\ Daily(symbol)[Len(Daily(symbol)) - 1].c # 0

\* H + L + C of the second-to-last daily candle: three times PP.
HLC(symbol) ==
    Daily(symbol)[Len(Daily(symbol)) - 1].h + Daily(symbol)[Len(Daily(symbol)) - 1].l
    + Daily(symbol)[Len(Daily(symbol)) - 1].c

PriorHigh(symbol) == Daily(symbol)[Len(Daily(symbol)) - 1].h

PriorLow(symbol) == Daily(symbol)[Len(Daily(symbol)) - 1].l

\* The five pivots are all unknown when the prior day is not known.
UnknownWhenMissing(k) ==
    ~PriorDayKnown(market.assets[k].symbol) => market.assets[k].key_levels.pivots = NoPivots

\* cents is the amount thirds / 3 dollars, exactly.
Exactly(cents, thirds) == cents # None /\ 3 * cents[1] = 100 * thirds

\* cents is the amount thirds / 3 dollars to the nearest cent.
ToTheCent(cents, thirds) == cents # None /\ Abs(3 * cents[1] - 100 * thirds) <= 1

\* C20 (as stated): with a known prior day PP = (H + L + C) / 3,
\* R1 = 2 PP - L, S1 = 2 PP - H, R2 = PP + (H - L), S2 = PP - (H - L);
\* otherwise all five pivots are unknown.
C20_PivotsAreExact ==
    (Built /\ market.tag = "ok") =>
        \A k \in 1..Len(market.assets) :
            /\ UnknownWhenMissing(k)
            /\ PriorDayKnown(market.assets[k].symbol) =>
                  /\ Exactly(market.assets[k].key_levels.pivots.pivot_pp,
                             HLC(market.assets[k].symbol))
                  /\ Exactly(market.assets[k].key_levels.pivots.pivot_r1,
                             2 * HLC(market.assets[k].symbol)
                             - 3 * PriorLow(market.assets[k].symbol))
                  /\ Exactly(market.assets[k].key_levels.pivots.pivot_s1,
                             2 * HLC(market.assets[k].symbol)
                             - 3 * PriorHigh(market.assets[k].symbol))
                  /\ Exactly(market.assets[k].key_levels.pivots.pivot_r2,
                             HLC(market.assets[k].symbol)
                             + 3 * (PriorHigh(market.assets[k].symbol)
                                    - PriorLow(market.assets[k].symbol)))
                  /\ Exactly(market.assets[k].key_levels.pivots.pivot_s2,
                             HLC(market.assets[k].symbol)
                             - 3 * (PriorHigh(market.assets[k].symbol)
                                    - PriorLow(market.assets[k].symbol)))

\* C20 (amended): with a known prior day each pivot is its formula over the
\* unrounded PP = (H + L + C) / 3, rounded to the nearest cent; otherwise
\* all five pivots are unknown.
C20_PivotsToTheCent ==
    (Built /\ market.tag = "ok") =>
        \A k \in 1..Len(market.assets) :
            /\ UnknownWhenMissing(k)
            /\ PriorDayKnown(market.assets[k].symbol) =>
                  /\ ToTheCent(market.assets[k].key_levels.pivots.pivot_pp,
                               HLC(market.assets[k].symbol))
                  /\ ToTheCent(market.assets[k].key_levels.pivots.pivot_r1,
                               2 * HLC(market.assets[k].symbol)
                               - 3 * PriorLow(market.assets[k].symbol))
                  /\ ToTheCent(market.assets[k].key_levels.pivots.pivot_s1,
                               2 * HLC(market.assets[k].symbol)
                               - 3 * PriorHigh(market.assets[k].symbol))
                  /\ ToTheCent(market.assets[k].key_levels.pivots.pivot_r2,
                               HLC(market.assets[k].symbol)
                               + 3 * (PriorHigh(market.assets[k].symbol)
                                      - PriorLow(market.assets[k].symbol)))
                  /\ ToTheCent(market.assets[k].key_levels.pivots.pivot_s2,
                               HLC(market.assets[k].symbol)
                               - 3 * (PriorHigh(market.assets[k].symbol)
                                      - PriorLow(market.assets[k].symbol)))

\* A returned state whose prior day is H = 111, L = 90, C = 100 (PP not a
\* whole number of cents) between two other daily candles.
C20_Witness ==
    /\ Built /\ market.tag = "ok"
    /\ Len(Daily("BTC")) = 3
    /\ PriorDayKnown("BTC")
    /\ HLC("BTC") % 3 # 0
    /\ market.assets[1].key_levels.pivots.pivot_pp = Some(10033)
    /\ market.assets[1].key_levels.pivots.pivot_r1 = Some(11067)


(***************************************************************************)
(* The anchoring context builder (src/anchoring.py).  Times are in         *)
(* seconds.  A timestamp string is [key, iso]: key is its place in string  *)
(* order (0 for the empty string) and, when iso is TRUE, the string is an  *)
(* ISO timestamp with a UTC offset for the instant key.  A raw text is     *)
(* [kind, data] as json.loads reads it, kind "absent" standing for a       *)
(* record without usable text (missing, empty or null raw).                *)
(***************************************************************************)
STALE_THRESHOLD_MINUTES == 90

SOFT_STALE_MINUTES == 45

\* Line 47: the age given to a timestamp that raises in lines 43-45.
UnparsedAgeMinutes == 999

\* The age with an unparseable timestamp taken as fresh.
AgeSeconds_UnparsedIsFresh(prev_ts, clock) ==
    IF prev_ts.iso THEN clock - prev_ts.key ELSE 0

\* Lines 42-47: age_minutes, in seconds; clock is datetime.now(timezone.utc).
AgeSeconds(prev_ts, clock) ==
    IF prev_ts.iso THEN clock - prev_ts.key ELSE UnparsedAgeMinutes * 60

\* The count with signals of an equal timestamp included.
_count_signals_since_Inclusive(sigs, prev_ts) ==
    Len(SelectSeq(sigs, LAMBDA sig : sig.ts >= prev_ts.key))

\* Lines 132-139: sig.get("ts", "") > prev_ts, on strings.
_count_signals_since(sigs, prev_ts) ==
    Len(SelectSeq(sigs, LAMBDA sig : sig.ts > prev_ts.key))

\* Lines 142-144.
_get_signals_since(sigs, prev_ts) ==
    SelectSeq(sigs, LAMBDA sig : sig.ts > prev_ts.key)

\* The words of signal keys in string order, the empty level first.
WordOrder ==
    << "", "BTC", "ETH", "broke_above", "broke_below", "large_move_down", "large_move_up",
       "new_day_high", "new_day_low", "prior_day_close", "prior_day_high", "prior_day_low" >>

WordRank(w) == CHOOSE i \in 1..Len(WordOrder) : WordOrder[i] = w

\* Line 152: the grouping key of a signal.
SignalKey(sig) == <<sig.asset, sig.event, sig.level>>

\* Python's order on the key tuples.
KeyLess(a, b) ==
    \/ WordRank(a[1]) < WordRank(b[1])
    \/ a[1] = b[1] /\ WordRank(a[2]) < WordRank(b[2])
    \/ a[1] = b[1] /\ a[2] = b[2] /\ WordRank(a[3]) < WordRank(b[3])

\* Lines 150-153: seen[key] after the loop, the last signal of the key.
Seen(sigs, key) ==
    sigs[CHOOSE i \in 1..Len(sigs) :
            /\ SignalKey(sigs[i]) = key
            /\ \A j \in (i + 1)..Len(sigs) : SignalKey(sigs[j]) # key]

SeenKeys(sigs) == { SignalKey(sigs[i]) : i \in 1..Len(sigs) }

FirstKey(keys) == CHOOSE k \in keys : \A j \in keys \ {k} : KeyLess(k, j)

\* Line 156: sorted(seen.items()), the keys.
RECURSIVE SortedKeys(_)
SortedKeys(keys) ==
    IF keys = {} THEN <<>>
    ELSE <<FirstKey(keys)>> \o SortedKeys(keys \ {FirstKey(keys)})

\* Lines 157-166: the line of one key.
SummaryLine(sig) ==
    [ asset |-> sig.asset, event |-> sig.event, price |-> sig.price,
      form |-> IF sig.pct # None THEN "pct" ELSE IF sig.level # "" THEN "level" ELSE "plain",
      pct |-> sig.pct,
      level |-> IF sig.pct = None THEN sig.level ELSE "",
      level_value |-> IF sig.pct = None /\ sig.level # "" THEN sig.level_value ELSE None ]

\* The summary with the first signal of each key kept.
_summarize_signals_FirstWins(sigs) ==
    [ k \in 1..Cardinality(SeenKeys(sigs)) |->
        SummaryLine(sigs[CHOOSE i \in 1..Len(sigs) :
                            /\ SignalKey(sigs[i]) = SortedKeys(SeenKeys(sigs))[k]
                            /\ \A j \in 1..(i - 1) :
                                  SignalKey(sigs[j]) # SortedKeys(SeenKeys(sigs))[k]]) ]

\* Lines 147-168.
_summarize_signals(sigs) ==
    [ k \in 1..Cardinality(SeenKeys(sigs)) |->
        SummaryLine(Seen(sigs, SortedKeys(SeenKeys(sigs))[k])) ]

\* The label with the soft threshold reached at 45 minutes.
Strength_AtSoftStale(age, signals_since) ==
    IF age >= SOFT_STALE_MINUTES * 60 /\ signals_since = 0 THEN "WEAK"
    ELSE IF age >= SOFT_STALE_MINUTES * 60 /\ signals_since > 0 THEN "MODERATE"
    ELSE "STRONG"

\* Lines 75-90: the anchor strength line.
Strength(age, signals_since) ==
    IF age > SOFT_STALE_MINUTES * 60 /\ signals_since = 0 THEN "WEAK"
    ELSE IF age > SOFT_STALE_MINUTES * 60 /\ signals_since > 0 THEN "MODERATE"
    ELSE "STRONG"

\* str.upper() on a direction.
Upper(direction) ==
    CASE direction = "long" -> "LONG"
      [] direction = "short" -> "SHORT"
      [] direction = "no_trade" -> "NO_TRADE"
      [] OTHER -> direction

\* Lines 107-108: the level of the first take-profit, 0 without one.
FirstTarget(tps) == IF tps = <<>> THEN 0 ELSE tps[1].level

\* Lines 110-111: the first two invalidations.
InvalidationText(invalidations) ==
    IF invalidations = <<>> THEN <<"none specified">>
    ELSE SubSeq(invalidations, 1, Min(2, Len(invalidations)))

\* Lines 92-117: the lines of one setup.
SetupLines(s) ==
    IF s.direction = "no_trade"
    THEN << [ form |-> "no_trade", asset |-> s.asset, direction |-> "NO_TRADE",
              playbook |-> s.playbook, confidence |-> 0, trigger |-> 0, stop |-> 0,
              tp1 |-> 0, invalidated_if |-> <<>> ] >>
    ELSE << [ form |-> "setup", asset |-> s.asset, direction |-> Upper(s.direction),
              playbook |-> s.playbook, confidence |-> s.confidence,
              trigger |-> s.entry_trigger, stop |-> s.stop_level,
              tp1 |-> FirstTarget(s.take_profits), invalidated_if |-> <<>> ],
            [ form |-> "invalidated", asset |-> "", direction |-> "", playbook |-> "",
              confidence |-> 0, trigger |-> 0, stop |-> 0, tp1 |-> 0,
              invalidated_if |-> InvalidationText(s.invalidations) ] >>

RECURSIVE AllSetupLines(_)
AllSetupLines(setups) ==
    IF setups = <<>> THEN <<>>
    ELSE SetupLines(Head(setups)) \o AllSetupLines(Tail(setups))

\* What the function gives back when it gives no text: None, or the
\* exception that leaves it.
NoDigest(tag) ==
    [ tag |-> tag, regime |-> "", regime_note |-> "", age |-> 0, signals_since |-> 0,
      strength |-> "", setups |-> <<>>, summary |-> <<>> ]

\* Lines 67-129: the text, as its parts.  The age is written with no
\* decimals; the summary follows only when signals fired since.
Digest(parsed, prev_ts, sigs, age) ==
    [ tag |-> "digest", regime |-> parsed.regime, regime_note |-> parsed.regime_note,
      age |-> RoundHalfEven(age, 60),
      signals_since |-> _count_signals_since(sigs, prev_ts),
      strength |-> Strength(age, _count_signals_since(sigs, prev_ts)),
      setups |-> AllSetupLines(parsed.setups),
      summary |-> IF _count_signals_since(sigs, prev_ts) > 0
                  THEN _summarize_signals(_get_signals_since(sigs, prev_ts))
                  ELSE <<>> ]

\* Lines 53-129, after age_minutes is known.
Anchored(prev, sigs, age) ==
    IF age > STALE_THRESHOLD_MINUTES * 60 /\ _count_signals_since(sigs, prev.timestamp[1]) = 0
    THEN NoDigest("none")
    ELSE IF prev.raw.kind \in {"absent", "garbage"}
    \* json.loads raises JSONDecodeError or TypeError
    THEN NoDigest("none")
    ELSE IF prev.raw.kind # "object"
    \* parsed.get on a list, number, string or None: AttributeError
    THEN NoDigest("raise")
    ELSE Digest(prev.raw.data, prev.timestamp[1], sigs, age)

\* Lines 22-129.  clock is the time datetime.now reads at line 44.  tag is
\* "none" for None, "digest" for a text and "raise" when an exception
\* leaves the function.
build_anchoring_context(prev, sigs, clock) ==
    IF prev.kind = "none" THEN NoDigest("none")
    ELSE IF prev.timestamp = None \/ prev.timestamp[1].key = 0 THEN NoDigest("none")
    ELSE Anchored(prev, sigs, AgeSeconds(prev.timestamp[1], clock))


(***************************************************************************)
(* The records, signal logs and clock readings the builder is run on.      *)
(***************************************************************************)
MaxSignals == 3
MaxAgeMinutes == 100

\* An ISO timestamp offset seconds after the instant the record was written.
Stamp(offset) == [key |-> 100000 + offset, iso |-> TRUE]

\* A string that is no ISO timestamp; it sorts after every timestamp of
\* the log.
Unparseable == [key |-> 900000, iso |-> FALSE]

\* An ISO timestamp without a UTC offset, 30 seconds after the record was
\* written: subtracting it from the clock raises TypeError.
Naive == [key |-> 100030, iso |-> FALSE]

EmptyString == [key |-> 0, iso |-> FALSE]

\* A raw text that is a JSON object with a regime, a note and setups.
Thesis(regime, setups) ==
    [ kind |-> "object",
      data |-> [regime |-> regime, regime_note |-> "funding rising", setups |-> setups] ]

Record(timestamp, text) == [kind |-> "record", timestamp |-> timestamp, raw |-> text]

Theses ==
    { Thesis("trend", <<Default(1), MkSetup(2, "short", 700, -1, 50, 2, 0),
                        MkSetup(3, "no_trade", 0, 0, 0, 1, 0)>>),
      Thesis("chop", <<>>),
      Thesis("range", <<[Default(1) EXCEPT !.take_profits = <<>>, !.invalidations = <<>>]>>),
      Thesis("range", <<[Default(1) EXCEPT !.asset = "ETH",
                            !.invalidations = <<"a", "b", "c">>]>>) }

RawTexts ==
    Theses \cup { [kind |-> k, data |-> NoData] : k \in (JsonKinds \ {"object"}) \cup {"absent"} }

Records ==
    { [kind |-> "none"] }
    \cup { Record(t, Thesis("chop", <<>>)) : t \in {None, Some(EmptyString)} }
    \cup { Record(Some(t), x) :
              t \in {Unparseable, Naive},
              x \in {Thesis("chop", <<>>), [kind |-> "garbage", data |-> NoData]} }
    \cup { Record(Some(Stamp(0)), x) : x \in RawTexts }

\* A signal of the log (features/signals.py): a level break, a new
\* extreme or a large move.
Signal(offset, asset, event, level, level_value, price, pct) ==
    [ ts |-> Stamp(offset).key, asset |-> asset, event |-> event, level |-> level,
      level_value |-> level_value, price |-> price, pct |-> pct ]

SignalKinds ==
    { Signal(60, "ETH", "broke_above", "prior_day_high", Some(110), 111, None),
      Signal(120, "ETH", "broke_above", "prior_day_high", Some(110), 112, None),
      Signal(60, "BTC", "large_move_up", "", None, 120, Some(150)),
      Signal(90, "BTC", "new_day_high", "", Some(121), 121, None),
      Signal(0, "BTC", "broke_below", "prior_day_low", Some(90), 89, None),
      Signal(-60, "ETH", "new_day_low", "", Some(88), 88, None) }

\* Seconds between the record and the call: both thresholds, one second
\* and one half minute past them, a record from the future, an old one.
Ages == { -300, 0, 45 * 60, 45 * 60 + 1, 90 * 60, 90 * 60 + 1, 90 * 60 + 30,
          MaxAgeMinutes * 60 }

\* Every record at every age, with a log of no signal or one signal
\* earlier than, equal to or later than the record.
AgeInputs ==
    { <<r, s, Stamp(a).key>> :
        r \in Records, a \in Ages,
        s \in { <<>> } \cup { <<Signal(o, "BTC", "new_day_high", "", Some(121), 121, None)>> :
                                 o \in {-60, 0, 60} } }

\* Every log of up to MaxSignals signals, for a fresh and an old record.
LogInputs ==
    { <<Record(Some(Stamp(0)), Thesis("chop", <<>>)), s, Stamp(a).key>> :
        s \in UNION { [1..n -> SignalKinds] : n \in 0..MaxSignals },
        a \in {0, MaxAgeMinutes * 60} }

AnchoringInputs == AgeInputs \cup LogInputs

(***************************************************************************)
(* The state machine of the builder: an analysis run calls it, time        *)
(* passes, and a later run calls it with the same record and log.          *)
(***************************************************************************)
InitAnchoring ==
    /\ ValidatorIdle
    /\ EngineIdle
    /\ ProgramIdle
    /\ pc = "start"
    /\ \E input \in AnchoringInputs :
          /\ prev_analysis = input[1]
          /\ signals = input[2]
          /\ now = input[3]
    /\ anchor = NoAnchor
    /\ anchor2 = NoAnchor

Anchor ==
    /\ pc = "start"
    /\ anchor' = build_anchoring_context(prev_analysis, signals, now)
    /\ pc' = "anchored"
    /\ UNCHANGED <<prev_analysis, signals, now, anchor2, validatorVars, engineVars, programVars>>

\* The clock moves on before the next call.
Tick ==
    /\ pc = "anchored"
    /\ \E delay \in {0, 600} : now' = now + delay
    /\ pc' = "later"
    /\ UNCHANGED <<prev_analysis, signals, anchor, anchor2, validatorVars, engineVars, programVars>>

AnchorAgain ==
    /\ pc = "later"
    /\ anchor2' = build_anchoring_context(prev_analysis, signals, now)
    /\ pc' = "again"
    /\ UNCHANGED <<prev_analysis, signals, now, anchor, validatorVars, engineVars, programVars>>

NextAnchoring == Anchor \/ Tick \/ AnchorAgain

SpecAnchoring == InitAnchoring /\ [][NextAnchoring]_vars


(***************************************************************************)
(* Claims about the anchoring context builder.                             *)
(***************************************************************************)
\* The previous record carries a timestamp that parses.
Dated == prev_analysis.kind = "record" /\ prev_analysis.timestamp # None
         /\ prev_analysis.timestamp[1].iso

\* The record is older than the given minutes at the clock's reading.
OlderThan(minutes) == Dated /\ now - prev_analysis.timestamp[1].key > minutes * 60

\* The signals of the log with a timestamp strictly after the record's.
LaterSignals ==
    { i \in 1..Len(signals) : signals[i].ts > prev_analysis.timestamp[1].key }

\* C14: a record older than 90 minutes with no signal strictly later than
\* its timestamp gives none, whatever its raw text; a signal with an equal
\* timestamp does not count.
C14_HardStaleGivesNone ==
    (OlderThan(90) /\ LaterSignals = {}) =>
        /\ pc = "anchored" => anchor.tag = "none"
        /\ pc = "again" => anchor2.tag = "none"

\* A record 90 minutes and one second old with a readable thesis and one
\* signal in the log, stamped as the record is: none.
C14_Witness ==
    /\ pc = "anchored"
    /\ Dated
    /\ now - prev_analysis.timestamp[1].key = 90 * 60 + 1
    /\ prev_analysis.raw.kind = "object"
    /\ Len(signals) = 1
    /\ signals[1].ts = prev_analysis.timestamp[1].key
    /\ anchor.tag = "none"


\* The digest of the call that last read the clock.
LastDigest == IF pc = "again" THEN anchor2 ELSE anchor

\* One of the two calls has just returned.
JustCalled == pc \in {"anchored", "again"}

\* C15: a digest for a record at most 90 minutes old is labelled STRONG
\* exactly when the record is at most 45 minutes old; past 45 minutes it is
\* labelled MODERATE exactly when a signal fired since and WEAK exactly
\* when none did.
C15_StrengthLabel ==
    (JustCalled /\ Dated /\ ~OlderThan(90) /\ LastDigest.tag = "digest") =>
        /\ LastDigest.strength \in {"STRONG", "MODERATE", "WEAK"}
        /\ LastDigest.strength = "STRONG" <=> ~OlderThan(45)
        /\ OlderThan(45) =>
              /\ LastDigest.strength = "MODERATE" <=> LaterSignals # {}
              /\ LastDigest.strength = "WEAK" <=> LaterSignals = {}

\* A record exactly 45 minutes old with a signal since is still STRONG.
C15_Witness ==
    /\ pc = "anchored"
    /\ Dated
    /\ now - prev_analysis.timestamp[1].key = 45 * 60
    /\ LaterSignals # {}
    /\ anchor.tag = "digest"
    /\ anchor.strength = "STRONG"


\* The record's timestamp is a non-empty string that does not parse.
Undated == prev_analysis.kind = "record" /\ prev_analysis.timestamp # None
           /\ ~prev_analysis.timestamp[1].iso /\ prev_analysis.timestamp[1].key # 0

\* The record's raw text parses into the JSON object the analysis log holds.
Readable == prev_analysis.raw.kind = "object"

\* C16: a record older than 90 minutes whose raw text parses and that has a
\* later signal gives a digest labelled MODERATE, and so does a record
\* whose timestamp does not parse.
C16_OldButActiveIsModerate ==
    (JustCalled /\ (OlderThan(90) \/ Undated) /\ Readable /\ LaterSignals # {}) =>
        /\ LastDigest.tag = "digest"
        /\ LastDigest.strength = "MODERATE"

\* A record 100 minutes old with one later signal: a MODERATE digest
\* reporting 100 minutes and one signal.
C16_Witness ==
    /\ pc = "anchored"
    /\ Dated
    /\ now - prev_analysis.timestamp[1].key = 100 * 60
    /\ Readable
    /\ Cardinality(LaterSignals) = 1
    /\ anchor.tag = "digest"
    /\ anchor.strength = "MODERATE"
    /\ anchor.age = 100
    /\ anchor.signals_since = 1


\* C17: build_anchoring_context is a function of its arguments: the later
\* call, with the same record and the same log, returns what the first
\* call returned.
C17_SameArgumentsSameResult == pc = "again" => anchor2 = anchor


\* Twice clamp(0.5 + imbalance * 0.5, 0, 1), in thousandths.
TwiceClamped(imbalance) == Max(0, Min(2000, 1000 + imbalance))

\* The flow ratio of state k is known and is the clamped value for the
\* imbalance of the same state's orderbook, to the thousandth.
RatioFollowsImbalance(k) ==
    /\ market.assets[k].flow.aggressive_buy_ratio # None
    /\ Abs(2 * market.assets[k].flow.aggressive_buy_ratio[1]
           - TwiceClamped(market.assets[k].orderbook.imbalance)) <= 1
    /\ market.assets[k].flow.aggressive_buy_ratio[1] \in 0..1000

\* C21: in every returned AssetState the buy-pressure ratio is
\* clamp(0.5 + imbalance * 0.5, 0, 1) for the imbalance of that state's
\* orderbook, the neutral placeholder included.
C21_FlowFollowsImbalance ==
    (Built /\ market.tag = "ok") =>
        \A k \in 1..Len(market.assets) : RatioFollowsImbalance(k)


\* The latest snapshot's entry for the symbol of returned state k.
LatestEntry(k) == snapshots[1].assets[market.assets[k].symbol]

\* C22: when the latest snapshot carries no funding rate or no open
\* interest for an asset, the returned state does not report that value as
\* 0 and reports no 1-hour open-interest delta.
C22_NoSubstitutedZero ==
    (Built /\ market.tag = "ok") =>
        \A k \in 1..Len(market.assets) :
            /\ LatestEntry(k).funding = None => market.assets[k].funding_oi.funding_rate # 0
            /\ LatestEntry(k).open_interest = None =>
                  /\ market.assets[k].funding_oi.open_interest # 0
                  /\ market.assets[k].funding_oi.oi_delta_1h = None


\* The (asset, event, level) triples of the signals later than the record.
SinceTriples == { SignalKey(signals[i]) : i \in LaterSignals }

\* The last signal of a triple, in log order, among the later signals.
LastSince(triple) ==
    signals[CHOOSE i \in LaterSignals :
               /\ SignalKey(signals[i]) = triple
               /\ \A j \in LaterSignals : SignalKey(signals[j]) = triple => j <= i]

\* Summary line j is built from the signal.
LineShows(j, sig) ==
    /\ LastDigest.summary[j].asset = sig.asset
    /\ LastDigest.summary[j].event = sig.event
    /\ LastDigest.summary[j].price = sig.price
    /\ LastDigest.summary[j].pct = sig.pct
    /\ sig.pct = None => LastDigest.summary[j].level = sig.level

LineTriple(j) ==
    <<LastDigest.summary[j].asset, LastDigest.summary[j].event, LastDigest.summary[j].level>>

\* C23: when signals fired since the record, the summary has exactly one
\* line per distinct triple among them, each built from the last signal of
\* its triple in log order, in the order of the triples; no line is built
\* from a signal that is not later than the record.
C23_SummaryIsLatestPerTriple ==
    (JustCalled /\ LastDigest.tag = "digest" /\ LaterSignals # {}) =>
        /\ Len(LastDigest.summary) = Cardinality(SinceTriples)
        /\ \A t \in SinceTriples :
              \E j \in 1..Len(LastDigest.summary) : LineShows(j, LastSince(t))
        /\ \A j \in 1..Len(LastDigest.summary) :
              \E t \in SinceTriples : LineShows(j, LastSince(t))
        /\ \A j \in 1..Len(LastDigest.summary) :
              \A k \in (j + 1)..Len(LastDigest.summary) :
                  KeyLess(LineTriple(j), LineTriple(k))

\* A log of three: the same break of ETH twice, the later-stamped one
\* first, and a signal stamped as the record is.  One line, from the
\* second entry.
C23_Witness ==
    /\ pc = "anchored"
    /\ anchor.tag = "digest"
    /\ Len(signals) = 3
    /\ signals[1].asset = "ETH" /\ signals[1].price = 112
    /\ signals[2].asset = "ETH" /\ signals[2].price = 111
    /\ signals[3].ts = prev_analysis.timestamp[1].key
    /\ Len(anchor.summary) = 1
    /\ anchor.summary[1].price = 111
    /\ anchor.signals_since = 2


(***************************************************************************)
(* Further claims about the validator.                                     *)
(***************************************************************************)
\* The sum of max_loss_usd over the non-no_trade setups, in cents.
TotalMaxLoss(setups) ==
    SumSeq([i \in 1..Len(setups) |->
               IF Traded(setups[i]) THEN setups[i].risk.max_loss_usd ELSE 0])

\* EQUITY_USD * MAX_TOTAL_RISK_PCT / 100 dollars, in cents.
TotalRiskBudget == (EQUITY_USD * MAX_TOTAL_RISK_PCT) \div 100

\* C24: in every returned output the max_loss_usd of the non-no_trade
\* setups sum to at most the total dollar risk budget.
C24_TotalLossWithinBudget ==
    Returned => TotalMaxLoss(OutSetups) <= TotalRiskBudget


\* The raw text is a JSON object the schema accepts.
SchemaValid == raw.kind = "object" /\ SchemaErrors(raw.data) = {}

\* Setup i is one the sizing block re-sizes.
Resized(i) == Traded(InSetups[i]) /\ PositiveDistinct(InSetups[i])

\* C25: for every schema-valid input, zero and negative risk_pct_equity
\* included, validate_llm_output completes without raising and every
\* setup it re-sizes has recommended_leverage >= MIN_LEVERAGE.
C25_SizingNeverRaises ==
    (pc # "start" /\ SchemaValid) =>
        /\ result.tag = "ok"
        /\ \A i \in 1..Len(InSetups) :
              Resized(i) => OutSetups[i].risk.recommended_leverage >= MIN_LEVERAGE


\* C26: for every re-sized setup with risk_pct_equity >= 0 the returned
\* margin_used_usd is at most the margin budget (50% of EQUITY_USD) and the
\* returned position_notional_usd at most margin budget * MAX_LEVERAGE.
C26_MarginWithinBudget ==
    Returned =>
        \A i \in 1..Len(InSetups) :
            (Resized(i) /\ InSetups[i].risk.risk_pct_equity >= 0) =>
                /\ OutSetups[i].risk.margin_used_usd <= margin_budget
                /\ OutSetups[i].risk.position_notional_usd <= margin_budget * MAX_LEVERAGE

\* Setup 1 at 1% with entry 700 and stop 697: notional 23,333.33 at 5x,
\* margin 4,666.67 of the 5,000 budget.
C26_Witness ==
    /\ Returned
    /\ Resized(1)
    /\ InSetups[1].risk.risk_pct_equity = 100
    /\ InSetups[1].entry_trigger = 700
    /\ InSetups[1].stop_level = 697
    /\ OutSetups[1].risk.position_notional_usd = 2333333
    /\ OutSetups[1].risk.recommended_leverage = 5
    /\ OutSetups[1].risk.margin_used_usd = 466667


\* C27: for every re-sized setup the stop lies inside the approximate
\* liquidation distance: stop_distance_pct < 1 / recommended_leverage,
\* the buffer of the liquidation note being positive.
C27_StopInsideLiquidation ==
    Returned =>
        \A i \in 1..Len(InSetups) :
            Resized(i) =>
                /\ OutSetups[i].risk.recommended_leverage > 0
                /\ Dist(InSetups[i]) * OutSetups[i].risk.recommended_leverage
                      < InSetups[i].entry_trigger

(***************************************************************************)
(* The commands of src/src/main.py over the three stores: the snapshot     *)
(* store (snapshots, newest first), the signal log (signals) and the       *)
(* analysis log (analysis_log, oldest first).  now is the UTC clock in     *)
(* seconds; a snapshot is stamped with the clock's reading when it is      *)
(* collected.  A record of the analysis log carries, next to the           *)
(* timestamp, raw and errors that main.py writes, the timestamp of the     *)
(* latest snapshot the run used (produced): that field is not in the       *)
(* file and nothing in the program reads it.                               *)
(***************************************************************************)
MaxRuns == 2
MaxElapsedMinutes == 100
MaxDays == 2

\* The UTC day of an instant (line 68: strftime("%Y-%m-%d")).
DayOf(instant) == instant \div 86400

\* What collect_snapshot can bring back for BTC: a quote, a quote whose
\* book has a best bid of 0, a quote without prices.
Collected(kind, ts) ==
    CASE kind = "crossed" ->
           Snapshot(ts, Some([Quote(100) EXCEPT
                                 !.orderbook = Book(<<Level(0, 2)>>, <<Level(101, 2)>>)]),
                    None, None)
      [] kind = "priceless" ->
           Snapshot(ts, Some([Quote(100) EXCEPT !.mid = None, !.mark = None]), None, None)
      [] OTHER -> Snapshot(ts, Some(Quote(100)), None, None)

CollectedKinds == {"quiet", "signal", "crossed", "priceless"}

\* features/signals.py, track_signals: nothing without a previous
\* snapshot; otherwise the events found, stamped with the snapshot's
\* timestamp.  Which events fire is decided by the prices; here a
\* collection of kind "signal" is one where a new day high fired.
Tracked(kind, ts, store) ==
    IF store # <<>> /\ kind = "signal"
    THEN << [ ts |-> ts, asset |-> "BTC", event |-> "new_day_high", level |-> "",
              level_value |-> Some(103), price |-> 100, pct |-> None ] >>
    ELSE <<>>

\* main.py lines 69-75: reset_signals() is called when _current_day is set
\* and differs from today.
ResetDue(current_day, today) == current_day # None /\ current_day[1] # today

\* Nothing of a run of cmd_analyze is left once its process has ended.
NoRun ==
    /\ outcome' = "idle"
    /\ market' = NotBuilt
    /\ prev_analysis' = [kind |-> "none"]
    /\ anchor' = NoAnchor
    /\ raw' = [kind |-> "null", data |-> NoData]
    /\ result' = Pending
    /\ pc' = "idle"
    /\ UNCHANGED <<anchor2, result2>>

\* One iteration of the loop of cmd_collect (lines 94-120):
\* _check_daily_reset, collect_snapshot, store_snapshot, track_signals.
\* When collect_snapshot raises (kind "http_error") the iteration ends
\* after _check_daily_reset with nothing stored.  One snapshot per reading
\* of the clock.
Collect ==
    /\ _running
    /\ \E kind \in CollectedKinds \cup {"http_error"} :
          IF kind = "http_error"
          THEN /\ snapshots' = snapshots
               /\ signals' = IF ResetDue(_current_day, DayOf(now)) THEN <<>> ELSE signals
          ELSE /\ IF snapshots = <<>> THEN TRUE ELSE snapshots[1].timestamp < now
               /\ snapshots' = <<Collected(kind, now)>> \o snapshots
               /\ signals' = (IF ResetDue(_current_day, DayOf(now)) THEN <<>> ELSE signals)
                             \o Tracked(kind, now, snapshots)
    /\ _current_day' = Some(DayOf(now))
    /\ NoRun
    /\ UNCHANGED <<now, analysis_log, _running>>

\* storage.py, get_latest_snapshots(conn, n=60).
Loaded(store) == SubSeq(store, 1, Min(60, Len(store)))

\* features/signals.py lines 121-137, load_todays_signals(max_signals=30):
\* the last 30 lines of the signal log.
load_todays_signals(log) == SubSeq(log, Max(1, Len(log) - 29), Len(log))

\* main.py lines 46-62, _load_previous_analysis: the last line of the log.
_load_previous_analysis(log) == IF log = <<>> THEN [kind |-> "none"] ELSE log[Len(log)]

\* What llm.analyze returns when it returns: a text.  written is the
\* timestamp the model put into its response.
Response(written) ==
    [ kind |-> "object",
      data |-> [ fields_missing |-> FALSE, timestamp |-> written, regime |-> "trend",
                 regime_note |-> "funding rising",
                 setups |-> <<Default(1), Default(2), Default(3)>> ] ]

\* The texts a model may answer with, for a market state stamped ts: the
\* schema's object with the market state's timestamp copied, the same with
\* a timestamp 100 minutes ahead of it, an object off the schema, a text
\* that is no JSON and a JSON array.
Responses(ts) ==
    { Response([key |-> ts, iso |-> TRUE]),
      Response([key |-> ts + 6000, iso |-> TRUE]),
      [Response([key |-> ts, iso |-> TRUE]) EXCEPT !.data.regime = "bull"],
      [kind |-> "garbage", data |-> NoData],
      [kind |-> "array", data |-> NoData] }

\* The record written whatever validation returned.
Logged_Unvalidated(res) == res.tag # "raise"

\* main.py lines 222-229: the run goes on to the log only when
\* validate_llm_output returned an output.
Logged(res) == res.tag = "ok"

\* Lines 234-241: the line appended to the analysis log.
LogLine(text, res, produced) ==
    [ kind |-> "record",
      timestamp |-> IF res.tag = "ok" THEN Some(res.output.timestamp) ELSE None,
      raw |-> text, errors |-> res.issues, produced |-> produced ]

\* How a run of cmd_analyze ends, from what its steps gave: the market
\* state (m), the anchoring context (a), the LLM client and call (failure
\* is "client" when get_llm_client raised, "call" when llm.analyze raised)
\* and the validation (res).
RunOutcome(store, m, a, failure, res) ==
    IF store = <<>> THEN "no_snapshots"
    ELSE IF m.tag = "raise" THEN "crashed"
    ELSE IF m.tag = "none" THEN "no_market"
    ELSE IF failure = "client" THEN "llm_failed"
    ELSE IF a.tag = "raise" THEN "crashed"
    ELSE IF failure = "call" THEN "llm_failed"
    ELSE IF res.tag = "raise" THEN "crashed"
    ELSE IF Logged(res) THEN "logged"
    ELSE "rejected"

\* cmd_analyze (lines 132-245) without --dry-run, as one step.  Each local
\* keeps its initial value when the run ended before the line that sets it.
Run(failure, text) ==
    /\ market' = IF snapshots = <<>> THEN NotBuilt
                 ELSE build_market_state(Loaded(snapshots))
    /\ prev_analysis' = IF market'.tag = "ok" /\ failure # "client"
                        THEN _load_previous_analysis(analysis_log)
                        ELSE [kind |-> "none"]
    /\ anchor' = IF market'.tag = "ok" /\ failure # "client"
                 THEN build_anchoring_context(prev_analysis', load_todays_signals(signals),
                                              now)
                 ELSE NoAnchor
    /\ raw' = IF market'.tag = "ok" /\ failure = "" /\ anchor'.tag # "raise"
              THEN text ELSE [kind |-> "null", data |-> NoData]
    /\ result' = IF market'.tag = "ok" /\ failure = "" /\ anchor'.tag # "raise"
                 THEN validate_llm_output(text) ELSE Pending
    /\ outcome' = RunOutcome(snapshots, market', anchor', failure, result')
    /\ analysis_log' = IF outcome' = "logged"
                       THEN Append(analysis_log,
                                   LogLine(text, result', snapshots[1].timestamp))
                       ELSE analysis_log
    /\ pc' = "ran"
    /\ UNCHANGED <<snapshots, signals, now, anchor2, result2, _current_day, _running>>

Analyze ==
    /\ Len(analysis_log) < MaxRuns
    /\ \/ \E failure \in {"client", "call"} : Run(failure, [kind |-> "null", data |-> NoData])
       \/ \E text \in Responses(IF snapshots = <<>> THEN 0 ELSE snapshots[1].timestamp) :
             Run("", text)

\* Fifty minutes pass.
Wait ==
    /\ now + 3000 <= Stamp(0).key + MaxElapsedMinutes * 60
    /\ now' = now + 3000
    /\ NoRun
    /\ UNCHANGED <<snapshots, signals, analysis_log, _current_day, _running>>

\* The collector is running, nothing is stored or logged yet.
InitRuns ==
    /\ pc = "idle"
    /\ now = Stamp(0).key
    /\ snapshots = <<>>
    /\ market = NotBuilt
    /\ signals = <<>>
    /\ prev_analysis = [kind |-> "none"]
    /\ anchor = NoAnchor
    /\ anchor2 = NoAnchor
    /\ ValidatorIdle
    /\ analysis_log = <<>>
    /\ outcome = "idle"
    /\ _current_day = None
    /\ _running = TRUE

NextRuns == Collect \/ Wait \/ Analyze

SpecRuns == InitRuns /\ [][NextRuns]_vars

(***************************************************************************)
(* Claims about sequences of analyze runs (SpecRuns).                      *)
(***************************************************************************)

\* The record _load_previous_analysis would give anchoring now.
LastRead == _load_previous_analysis(analysis_log)

\* json.loads gives an object and LLMOutput(**data) accepts it.
ParsesAndPasses(text) == text.kind = "object" /\ SchemaErrors(text.data) = {}

\* A step that changes the log is a run whose validation returned an
\* output, and it appends that run's line.
AppendsValidated ==
    analysis_log' # analysis_log
        => /\ pc' = "ran"
           /\ result'.tag = "ok"
           /\ analysis_log' = Append(analysis_log,
                                     LogLine(raw', result', snapshots[1].timestamp))

\* A run without a market state or without an output of validation (the
\* build failed, the LLM client or call failed, validation rejected or
\* raised) leaves the log as it was.
FailedRunKeepsLog ==
    pc' = "ran" /\ (market'.tag # "ok" \/ result'.tag # "ok")
        => analysis_log' = analysis_log

\* C28: across any sequence of analyze runs the analysis log grows only by
\* the record of a run whose validate_llm_output call returned an output;
\* a run whose market state build, LLM call or validation failed leaves
\* the log unchanged; so the last record, the one anchoring reads, always
\* has a raw text that parses as a JSON object passing the schema.
C28_LogHoldsValidatedRunsOnly ==
    /\ [](LastRead.kind = "record" => ParsesAndPasses(LastRead.raw))
    /\ [][AppendsValidated /\ FailedRunKeepsLog]_vars

\* A run that read the record of an earlier run and was then rejected.
C28_Witness ==
    /\ pc = "ran"
    /\ outcome = "rejected"
    /\ prev_analysis.kind = "record"
    /\ LastRead = prev_analysis

\* No signal of the log is later than the instant.
NoSignalSince(instant) == \A i \in 1..Len(signals) : signals[i].ts <= instant

\* C30: the age and the signals since of a persisted record are measured
\* from the run that produced it (the timestamp of the latest snapshot the
\* run used), whatever timestamp the model wrote: a record produced more
\* than 90 minutes ago with no signal since is never anchored on.
C30_StaleByProductionIsNotAnchored ==
    ( /\ pc = "ran"
      /\ prev_analysis.kind = "record"
      /\ now - prev_analysis.produced > STALE_THRESHOLD_MINUTES * 60
      /\ NoSignalSince(prev_analysis.produced) )
        => anchor.tag = "none"

(***************************************************************************)
(* The collector as a process that is started and stopped (SpecCollector). *)
(* _current_day is a global of the module main.py: it is None in a new     *)
(* process.  The snapshot store and the signal log are files and outlive   *)
(* the process.                                                            *)
(***************************************************************************)

\* `python -m src.main collect`: a new process (line 43: _current_day is
\* None, line 40: _running is True).
StartCollector ==
    /\ ~_running
    /\ _running' = TRUE
    /\ _current_day' = None
    /\ UNCHANGED <<now, snapshots, signals, analysis_log, outcome, market, prev_analysis,
                   anchor, anchor2, pc, validatorVars>>

\* Ctrl+C (lines 78-81): the loop ends after the iteration.
StopCollector ==
    /\ _running
    /\ _running' = FALSE
    /\ UNCHANGED <<now, snapshots, signals, analysis_log, outcome, _current_day, market,
                   prev_analysis, anchor, anchor2, pc, validatorVars>>

\* Twelve hours pass.  The loop iterates every POLL_INTERVAL_SECONDS: a
\* running collector has been through an iteration at the present reading
\* of the clock.
HalfDay ==
    /\ DayOf(now + 43200) < DayOf(Stamp(0).key) + MaxDays
    /\ _running => _current_day = Some(DayOf(now))
    /\ now' = now + 43200
    /\ UNCHANGED <<snapshots, signals, analysis_log, outcome, _current_day, _running,
                   market, prev_analysis, anchor, anchor2, pc, validatorVars>>

\* No collector is running, nothing is stored or logged yet.
InitCollector ==
    /\ pc = "idle"
    /\ now = Stamp(0).key
    /\ snapshots = <<>>
    /\ market = NotBuilt
    /\ signals = <<>>
    /\ prev_analysis = [kind |-> "none"]
    /\ anchor = NoAnchor
    /\ anchor2 = NoAnchor
    /\ ValidatorIdle
    /\ analysis_log = <<>>
    /\ outcome = "idle"
    /\ _current_day = None
    /\ _running = FALSE

NextCollector == StartCollector \/ StopCollector \/ Collect \/ HalfDay

SpecCollector == InitCollector /\ [][NextCollector]_vars

\* The collector has completed a loop iteration on the present UTC day.
CollectedToday == snapshots # <<>> /\ DayOf(snapshots[1].timestamp) = DayOf(now)

\* C29: the signal log is cleared at every UTC day boundary: once the
\* collector has completed its first loop iteration on a UTC day, the log
\* holds no signal recorded on an earlier day, also when the collector was
\* stopped before midnight and started again on a later day.
C29_NoSignalOfAnEarlierDay ==
    CollectedToday => \A i \in 1..Len(signals) : DayOf(signals[i].ts) = DayOf(now)

====
